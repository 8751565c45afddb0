------------------------- MODULE CSharpChannelProofs -------------------------
(***************************************************************************)
(* Proofs about CSharpChannel, for any calls, sizes and bounds.  Four      *)
(* invariants, each on the ones before it: the types; who waits under      *)
(* which id; what the frames under way are about; how the two streams are  *)
(* made up.                                                                *)
(***************************************************************************)
EXTENDS CSharpChannel, SequenceTheorems, TLAPS

Size == Prefix + Body

Message == {"request", "response"} \X Names

Frame == [method : Methods, transmit_id : Nat, stub : BOOLEAN, failed : BOOLEAN, message : Message]

Byte == Frame \X (1..Size)

LEMMA SizeFacts == Prefix \in Nat \ {0} /\ Body \in Nat /\ Size \in Nat \ {0} /\ ReceiveBuffer \in Nat \ {0}
BY SizeAssumption DEF Size

-----------------------------------------------------------------------------
(* The messages and their bytes                                            *)

(* What is in proto_: a message, or what the constructor leaves there.     *)
NoMethod == ""

Proto == [method : Methods \cup {NoMethod}, transmit_id : Nat, stub : BOOLEAN, failed : BOOLEAN,
          message : Message \cup {<<>>}]

(* f is the request of c under id i, made in p.                            *)
IsRequest(f, c, i, p) ==
  /\ f \in Frame
  /\ f.method = Method[c] /\ f.transmit_id = i /\ f.stub = TRUE /\ f.failed = p.failed
  /\ f.message = <<"request", c>> /\ f.message[2] = c

LEMMA NameMessages ==
  ASSUME NEW c \in Names
  PROVE  /\ Method[c] \in Methods
         /\ <<"request", c>> \in Message /\ <<"response", c>> \in Message
BY DEF Methods, Message

LEMMA RequestMade ==
  ASSUME NEW p \in Proto, NEW c \in Calls, NEW i \in Nat, NEW m, NEW msg,
         m = Method[c], msg = <<"request", c>>
  PROVE  /\ IsRequest([p EXCEPT !.method = m, !.transmit_id = i, !.message = msg, !.stub = TRUE], c, i, p)
         /\ IsRequest([p EXCEPT !.method = m, !.message = msg, !.stub = TRUE], c, p.transmit_id, p)
<1>1. m \in Methods /\ msg \in Message /\ msg[2] = c
  BY NameMessages DEF Names
<1> DEFINE f == [p EXCEPT !.method = m, !.transmit_id = i, !.message = msg, !.stub = TRUE]
           g == [p EXCEPT !.method = m, !.message = msg, !.stub = TRUE]
<1>2. f \in Frame /\ g \in Frame
  BY <1>1 DEF Proto, Frame
<1>3. f.method = m /\ f.transmit_id = i /\ f.stub = TRUE /\ f.failed = p.failed /\ f.message = msg
  BY DEF Proto
<1>4. g.method = m /\ g.transmit_id = p.transmit_id /\ g.stub = TRUE /\ g.failed = p.failed /\ g.message = msg
  BY DEF Proto
<1> HIDE DEF f, g
<1>5. IsRequest(f, c, i, p) /\ IsRequest(g, c, p.transmit_id, p)
  BY <1>1, <1>2, <1>3, <1>4 DEF IsRequest
<1> QED
  BY <1>5 DEF f, g

LEMMA FrameProto ==
  ASSUME NEW f \in Frame
  PROVE  /\ f \in Proto /\ f.message[2] \in Names /\ f.method \in Methods /\ f.transmit_id \in Nat
         /\ f.stub \in BOOLEAN /\ f.failed \in BOOLEAN
BY DEF Frame, Proto, Message

(* g is what f becomes when it is answered.                                *)
IsAnswer(g, f, failed, kind) ==
  /\ g \in Frame
  /\ g.method = f.method /\ g.transmit_id = f.transmit_id /\ g.stub = FALSE /\ g.failed = failed
  /\ g.message = kind /\ g.message[2] = f.message[2]

AnswerOf(f, failed, msg) == [f EXCEPT !.stub = FALSE, !.failed = failed, !.message = msg]

LEMMA AnswerMade ==
  ASSUME NEW f \in Frame, NEW failed \in BOOLEAN, NEW msg \in Message, msg[2] = f.message[2]
  PROVE  /\ IsAnswer([f EXCEPT !.stub = FALSE, !.message = msg], f, f.failed, msg)
         /\ IsAnswer(AnswerOf(f, failed, msg), f, failed, msg)
<1> DEFINE g == [f EXCEPT !.stub = FALSE, !.message = msg]
           h == [f EXCEPT !.stub = FALSE, !.failed = failed, !.message = msg]
<1>1. g \in Frame /\ h \in Frame
  BY DEF Frame
<1>2. g.method = f.method /\ g.transmit_id = f.transmit_id /\ g.stub = FALSE /\ g.failed = f.failed /\ g.message = msg
  BY DEF Frame
<1>3. h.method = f.method /\ h.transmit_id = f.transmit_id /\ h.stub = FALSE /\ h.failed = failed /\ h.message = msg
  BY DEF Frame
<1> HIDE DEF g, h
<1>4. IsAnswer(g, f, f.failed, msg) /\ IsAnswer(h, f, failed, msg)
  BY <1>1, <1>2, <1>3 DEF IsAnswer
<1> QED
  BY <1>4 DEF g, h, AnswerOf

LEMMA BytesFacts ==
  ASSUME NEW f \in Frame
  PROVE  /\ Bytes(f) \in Seq(Byte) /\ Len(Bytes(f)) = Size
         /\ \A k \in 1..Size : Bytes(f)[k] = <<f, k>>
<1>1. Size \in Nat
  BY SizeFacts
<1>2. Bytes(f) = [k \in 1..Size |-> <<f, k>>]
  BY DEF Bytes, Size
<1>3. \A k \in 1..Size : <<f, k>> \in Byte
  BY DEF Byte
<1> QED
  BY <1>1, <1>2, <1>3

-----------------------------------------------------------------------------
(* The types                                                               *)

StateTypes ==
  /\ pc \in {"idle", "handle", "write", "close", "reopen"}
  /\ connected \in BOOLEAN
  /\ asyncConnect \in {"null", "pending", "done", "refused"}
  /\ link \in {"none", "up", "ended", "broken"}
  /\ link = "none" <=> ~connected
  /\ asyncRead \in {"null", "pending", "done"} /\ asyncWrite \in {"null", "pending", "done"}
  /\ ~connected => asyncRead = "null" /\ asyncWrite = "null"
  /\ pc # "idle" => connected
  /\ reconnect \in -1..Max({Reconnects, 0})
  /\ lackLength \in 0..Prefix + Body
  /\ receiving \in Nat

FlowTypes ==
  /\ writeBuffer \in Seq(Frame) /\ writeBufferPending \in Seq(Frame) /\ toServer \in Seq(Frame)
  /\ serving \subseteq Frame
  /\ readBuffer \in Seq(Byte) /\ buffer \in Seq(Byte) /\ toClient \in Seq(Byte)
  /\ Len(buffer) <= receiving
  /\ proto \in Proto
  /\ made \in Seq(Calls) /\ served \in Seq(Names)

CallTypes ==
  /\ transmitId \in [Methods -> Nat]
  /\ DOMAIN requests = Methods /\ requests = [m \in Methods |-> requests[m]]
  /\ call \in [Calls -> {"unsent", "waiting", "done", "lost"}]
  /\ answer = [c \in Calls |-> answer[c]]

Types == StateTypes /\ FlowTypes /\ CallTypes

LEMMA SmallerOf ==
  ASSUME NEW i \in Nat, NEW j \in Nat
  PROVE  Min({i, j}) \in Nat /\ Min({i, j}) <= i /\ Min({i, j}) <= j
<1>1. \E x \in {i, j} : \A y \in {i, j} : x <= y
  BY SMT
<1> QED
  BY <1>1 DEF Min

LEMMA LargerOf ==
  ASSUME NEW i \in Int, NEW j \in Int
  PROVE  Max({i, j}) \in Int /\ Max({i, j}) >= i /\ Max({i, j}) >= j
<1>1. \E x \in {i, j} : \A y \in {i, j} : x >= y
  BY SMT
<1> QED
  BY <1>1 DEF Max

LEMMA LengthNat == \A S : \A s \in Seq(S) : Len(s) \in Nat
BY LenProperties

LEMMA StateTypesStep ==
  ASSUME Types, [Next]_vars
  PROVE  StateTypes'
<1> USE DEF StateTypes, connectVars, writeVars, readVars, callVars, serverVars
<1>0. StateTypes /\ Len(readBuffer) \in Nat
  BY LengthNat DEF Types, FlowTypes
<1>1. CASE UNCHANGED vars
  BY <1>0, <1>1 DEF vars
<1>2. ASSUME NEW c \in Calls, CallMethod(c)
      PROVE  StateTypes'
  BY <1>0, <1>2 DEF CallMethod
<1>3. CASE Connect
  BY <1>0, <1>3 DEF Connect
<1>4. CASE CloseConnection
  BY <1>0, <1>4 DEF CloseConnection
<1>5. CASE Reconnect
  <2>1. reconnect' \in -1..Max({Reconnects, 0})
    <3>1. Max({Reconnects, 0}) \in Int
      <4>1. Reconnects \in Int
        BY BoundAssumption
      <4> QED
        BY <4>1, LargerOf
    <3>2. reconnect' = reconnect \/ (reconnect > 0 /\ reconnect' = reconnect - 1)
      BY <1>5 DEF Reconnect
    <3>3. reconnect \in -1..Max({Reconnects, 0})
      BY <1>0
    <3> HIDE DEF StateTypes
    <3> QED
      BY <3>1, <3>2, <3>3
  <2>2. UNCHANGED <<pc, receiving, lackLength>> /\ ~connected /\ pc = "idle"
    BY <1>5 DEF Reconnect
  <2>3. \/ /\ asyncConnect' = "null" /\ connected' = TRUE /\ link' = "up"
           /\ asyncRead' = "null" /\ asyncWrite' = "null"
        \/ /\ asyncConnect' \in {"null", "pending"}
           /\ UNCHANGED <<connected, link, asyncRead, asyncWrite>>
    BY <1>5 DEF Reconnect
  <2>4. /\ pc' \in {"idle", "handle", "write", "close", "reopen"} /\ pc' = "idle"
        /\ lackLength' \in 0..Prefix + Body /\ receiving' \in Nat
    BY <1>0, <2>2
  <2>5. /\ connected' \in BOOLEAN /\ asyncConnect' \in {"null", "pending", "done", "refused"}
        /\ link' \in {"none", "up", "ended", "broken"} /\ (link' = "none" <=> ~connected')
        /\ asyncRead' \in {"null", "pending", "done"} /\ asyncWrite' \in {"null", "pending", "done"}
        /\ ~connected' => asyncRead' = "null" /\ asyncWrite' = "null"
    <3>1. CASE /\ asyncConnect' = "null" /\ connected' = TRUE /\ link' = "up"
               /\ asyncRead' = "null" /\ asyncWrite' = "null"
      BY <3>1
    <3>2. CASE /\ asyncConnect' \in {"null", "pending"}
               /\ UNCHANGED <<connected, link, asyncRead, asyncWrite>>
      BY <1>0, <3>2
    <3> QED
      BY <2>3, <3>1, <3>2
  <2> QED
    BY <2>1, <2>4, <2>5
<1>6. CASE Read
  <2>1. lackLength' \in 0..Prefix + Body /\ receiving' \in Nat
    <3>1. \/ UNCHANGED <<lackLength, receiving>>
          \/ lackLength' = Min({lackLength, ReceiveBuffer}) /\ receiving' = lackLength'
      BY <1>6 DEF Read
    <3>2. /\ Min({lackLength, ReceiveBuffer}) \in Nat
          /\ Min({lackLength, ReceiveBuffer}) <= lackLength
      BY <1>0, SizeAssumption, SmallerOf
    <3> QED
      BY <1>0, <3>1, <3>2, SizeAssumption
  <2> QED
    BY <1>0, <1>6, <2>1 DEF Read
<1>7. CASE Handle
  <2>1. lackLength' \in 0..Prefix + Body
    BY <1>0, <1>7, SizeAssumption DEF Handle
  <2> QED
    BY <1>0, <1>7, <2>1 DEF Handle
<1>8. CASE Write
  BY <1>0, <1>8 DEF Write
<1>9. CASE ConnectDone \/ SendDone \/ ReceiveDone
  BY <1>0, <1>9 DEF ConnectDone, SendDone, ReceiveDone
<1>10. CASE ConnectionLost
  BY <1>0, <1>10 DEF ConnectionLost
<1>11. CASE ServerTakes \/ ServerAnswers \/ \E s \in ServerCalls : ServerCall(s)
  <2>1. UNCHANGED <<pc, connectVars, asyncWrite, asyncRead, receiving, lackLength>>
    BY <1>11, Zenon DEF ServerTakes, ServerAnswers, ServerCall
  <2> QED
    BY <1>0, <2>1
<1> QED
  BY <1>1, <1>2, <1>3, <1>4, <1>5, <1>6, <1>7, <1>8, <1>9, <1>10, <1>11 DEF Next, Update, Socket

-----------------------------------------------------------------------------
(* What the steps do to the messages                                       *)

(* A call is made in proto_ and appended to what is to be sent.            *)
LEMMA CallMakes ==
  ASSUME Types, NEW c \in Calls, CallMethod(c)
  PROVE  /\ \E i \in Nat : /\ IsRequest(proto', c, i, proto)
                           /\ c \notin OneWay => i = NextId(Method[c])
         /\ writeBufferPending' = Append(writeBufferPending, proto')
         /\ UNCHANGED <<pc, connectVars, writeVars, readVars, readBuffer, serverVars, answer, garbled>>
         /\ made' = IF connected THEN Append(made, c) ELSE made
<1>1. proto \in Proto /\ Method[c] \in Methods /\ transmitId \in [Methods -> Nat]
  BY NameMessages DEF Types, FlowTypes, CallTypes, Names
<1>2. PICK m, msg : m = Method[c] /\ msg = <<"request", c>>
  OBVIOUS
<1>3. CASE c \in OneWay
  <2>1. proto' = [proto EXCEPT !.method = m, !.message = msg, !.stub = TRUE]
    BY <1>2, <1>3, Zenon DEF CallMethod, SendNotify
  <2>2. proto.transmit_id \in Nat
    BY <1>1 DEF Proto
  <2>3. IsRequest(proto', c, proto.transmit_id, proto)
    BY <1>1, <1>2, <2>1, <2>2, RequestMade, Zenon
  <2> QED
    BY <1>3, <2>2, <2>3 DEF CallMethod
<1>4. CASE c \notin OneWay
  <2>1. PICK i : i = NextId(Method[c])
    OBVIOUS
  <2>2. i \in Nat
    BY <1>1, <2>1 DEF NextId
  <2>3. proto' = [proto EXCEPT !.method = m, !.transmit_id = i, !.message = msg, !.stub = TRUE]
    BY <1>2, <1>4, <2>1, Zenon DEF CallMethod, SendRequest
  <2>4. IsRequest(proto', c, i, proto)
    BY <1>1, <1>2, <2>2, <2>3, RequestMade, Zenon
  <2> QED
    BY <1>4, <2>1, <2>2, <2>4 DEF CallMethod
<1> QED
  BY <1>3, <1>4

HandlesRequest(f) ==
  /\ f.stub /\ UNCHANGED <<requests, call, answer>>
  /\ \/ proto' = f /\ UNCHANGED writeBufferPending
     \/ /\ IsAnswer(proto', f, f.failed, <<"response", f.message[2]>>)
        /\ writeBufferPending' = Append(writeBufferPending, proto')

HandlesNothing == UNCHANGED <<proto, requests, call, answer, writeBufferPending>>

(* Handle waits for bytes, or takes those of a frame from the buffer.      *)
Takes(f) ==
  /\ Len(readBuffer) >= Size /\ f = readBuffer[1][1]
  /\ readBuffer' = SubSeq(readBuffer, Size + 1, Len(readBuffer))
  /\ IF SubSeq(readBuffer, 1, Size) = Bytes(f)
       THEN UNCHANGED garbled /\ (HandlesRequest(f) \/ (~f.stub /\ HandleResponse(f)))
       ELSE HandlesNothing

LEMMA HandleTakes ==
  ASSUME Types, Handle
  PROVE  /\ \/ HandlesNothing /\ UNCHANGED <<readBuffer, garbled>>
            \/ \E f \in Frame : Takes(f)
         /\ pc = "handle" /\ pc' = "write"
         /\ UNCHANGED <<connectVars, writeVars, asyncRead, receiving, buffer, transmitId, made, serverVars>>
<1>1. /\ readBuffer \in Seq(Byte) /\ Len(readBuffer) \in Nat
      /\ Prefix \in Nat \ {0} /\ Body \in Nat
  BY LengthNat, SizeFacts DEF Types, FlowTypes
<1>2. CASE Len(readBuffer) < Prefix \/ Body > Len(readBuffer) - Prefix
  BY <1>2 DEF Handle, HandlesNothing
<1>3. CASE ~(Len(readBuffer) < Prefix \/ Body > Len(readBuffer) - Prefix)
  <2>1. PICK f : f = readBuffer[1][1]
    OBVIOUS
  <2>2. Len(readBuffer) >= Size
    BY <1>1, <1>3 DEF Size
  <2>3. f \in Frame
    <3>1. readBuffer[1] \in Byte
      BY <1>1, <2>2, SizeFacts, ElementOfSeq
    <3> QED
      BY <2>1, <3>1 DEF Byte
  <2>4. readBuffer' = SubSeq(readBuffer, Size + 1, Len(readBuffer))
    BY <1>3 DEF Handle, Size
  <2>5. IF SubSeq(readBuffer, 1, Size) = Bytes(f)
          THEN (IF f.stub THEN HandleRequest(f) ELSE HandleResponse(f)) /\ UNCHANGED garbled
          ELSE HandlesNothing
    BY <1>3, <2>1 DEF Handle, Size, HandlesNothing
  <2>6. ASSUME f.stub, HandleRequest(f)
        PROVE  HandlesRequest(f)
    <3>1. PICK msg : msg = <<"response", f.message[2]>>
      OBVIOUS
    <3>2. msg \in Message /\ msg[2] = f.message[2]
      <4>1. f.message[2] \in Names
        BY <2>3, FrameProto
      <4> QED
        BY <3>1, <4>1, NameMessages
    <3>3. CASE f.message[2] \in OneWay
      BY <2>6, <3>3 DEF HandleRequest, HandlesRequest, HandleNotify
    <3>4. CASE f.message[2] \notin OneWay
      <4>1. proto' = [f EXCEPT !.stub = FALSE, !.message = msg]
        BY <2>6, <3>1, <3>4, Zenon DEF HandleRequest
      <4>2. /\ writeBufferPending' = Append(writeBufferPending, proto')
            /\ UNCHANGED <<requests, call, answer>>
        BY <2>6, <3>4, Zenon DEF HandleRequest
      <4>3. f.failed \in BOOLEAN
        BY <2>3 DEF Frame
      <4>4. IsAnswer(proto', f, f.failed, msg)
        BY <2>3, <3>2, <4>1, <4>3, AnswerMade, Zenon
      <4> QED
        BY <2>6, <3>1, <4>2, <4>4 DEF HandlesRequest
    <3> QED
      BY <3>3, <3>4
  <2>7. Takes(f)
    BY <2>1, <2>2, <2>4, <2>5, <2>6 DEF Takes
  <2> QED
    BY <2>3, <2>7, Zenon DEF Handle
<1> QED
  BY <1>2, <1>3

(* The two ways the server makes bytes.                                    *)
LEMMA ServerMakes ==
  ASSUME Types,
         ServerAnswers \/ \E s \in ServerCalls : ServerCall(s)
  PROVE  \E f \in Frame :
           /\ toClient' = toClient \o Bytes(f)
           /\ \/ /\ ~f.stub
                 /\ \E g \in serving :
                      /\ serving' = serving \ {g}
                      /\ f.failed <=> (g.failed \/ g.message[2] \in Failing)
                      /\ \/ IsAnswer(f, g, f.failed, <<"response", g.message[2]>>)
                         \/ f.failed /\ IsAnswer(f, g, TRUE, g.message)
              \/ f.stub /\ ~f.failed /\ f.message[2] \in ServerCalls /\ UNCHANGED serving
<1>1. CASE ServerAnswers
  <2>1. PICK g, failed, msg :
          /\ g \in serving /\ failed \in BOOLEAN
          /\ serving' = serving \ {g}
          /\ failed <=> (g.failed \/ g.message[2] \in Failing)
          /\ msg = IF failed THEN g.message ELSE <<"response", g.message[2]>>
          /\ toClient' = toClient \o Bytes(AnswerOf(g, failed, msg))
    <3>1. PICK g \in serving :
            /\ serving' = serving \ {g}
            /\ toClient' = toClient \o Bytes([g EXCEPT !.stub = FALSE,
                   !.failed = (g.failed \/ g.message[2] \in Failing),
                   !.message = IF g.failed \/ g.message[2] \in Failing THEN g.message
                               ELSE <<"response", g.message[2]>>])
      BY <1>1, Zenon DEF ServerAnswers
    <3>2. PICK failed : failed = (g.failed \/ g.message[2] \in Failing)
      OBVIOUS
    <3>3. PICK msg : msg = IF g.failed \/ g.message[2] \in Failing THEN g.message
                           ELSE <<"response", g.message[2]>>
      OBVIOUS
    <3>4. toClient' = toClient \o Bytes(AnswerOf(g, failed, msg))
      BY <3>1, <3>2, <3>3, Zenon DEF AnswerOf
    <3>5. failed \in BOOLEAN /\ (failed <=> (g.failed \/ g.message[2] \in Failing))
      BY <3>2
    <3>6. msg = IF failed THEN g.message ELSE <<"response", g.message[2]>>
      BY <3>3, <3>5
    <3> QED
      BY <3>1, <3>4, <3>5, <3>6, Zenon
  <2>2. PICK f : f = AnswerOf(g, failed, msg)
    OBVIOUS
  <2>3. g \in Frame /\ g.message[2] \in Names
    BY <2>1, FrameProto DEF Types, FlowTypes
  <2>4. msg \in Message /\ msg[2] = g.message[2]
    <3>1. g.message \in Message /\ <<"response", g.message[2]>> \in Message
      BY <2>3, NameMessages DEF Frame
    <3> QED
      BY <2>1, <3>1
  <2>5. IsAnswer(f, g, failed, msg)
    <3>1. failed \in BOOLEAN
      BY <2>1
    <3> QED
      BY <2>2, <2>3, <2>4, <3>1, AnswerMade, Zenon
  <2>6. f \in Frame /\ f.failed = failed /\ ~f.stub
    BY <2>5 DEF IsAnswer
  <2>7. \/ IsAnswer(f, g, f.failed, <<"response", g.message[2]>>)
        \/ f.failed /\ IsAnswer(f, g, TRUE, g.message)
    BY <2>1, <2>5, <2>6
  <2>8. toClient' = toClient \o Bytes(f)
    BY <2>1, <2>2
  <2> QED
    BY <2>1, <2>6, <2>7, <2>8
<1>2. ASSUME NEW s \in ServerCalls, ServerCall(s)
      PROVE  \E f \in Frame : /\ toClient' = toClient \o Bytes(f) /\ UNCHANGED serving
                              /\ f.stub /\ ~f.failed /\ f.message[2] \in ServerCalls
  <2>1. PICK f : f = ControllerProto(Method[s], 0, TRUE, FALSE, <<"request", s>>)
    OBVIOUS
  <2>2. f \in Frame /\ f.stub /\ ~f.failed /\ f.message[2] = s
    <3>1. Method[s] \in Methods /\ <<"request", s>> \in Message /\ <<"request", s>>[2] = s
      BY NameMessages DEF Names
    <3> QED
      BY <2>1, <3>1 DEF ControllerProto, Frame
  <2>3. toClient' = toClient \o Bytes(f) /\ UNCHANGED serving
    BY <1>2, <2>1, Zenon DEF ServerCall
  <2> QED
    BY <2>2, <2>3
<1> QED
  BY <1>1, <1>2

LEMMA FlowTypesStep ==
  ASSUME Types, [Next]_vars
  PROVE  FlowTypes'
<1> USE DEF connectVars, writeVars, readVars, callVars, serverVars
<1>0. FlowTypes /\ receiving \in Nat /\ <<>> \in Seq(Frame) /\ <<>> \in Seq(Byte) /\ Len(<<>>) = 0
      /\ <<>> \in Seq(Calls) /\ <<>> \in Seq(Names)
  BY EmptySeq DEF Types, StateTypes
<1>1. CASE UNCHANGED vars
  BY <1>0, <1>1 DEF vars, FlowTypes
<1>2. ASSUME NEW c \in Calls, CallMethod(c)
      PROVE  FlowTypes'
  <2>1. proto' \in Frame /\ proto' \in Proto
    BY <1>2, CallMakes, FrameProto DEF IsRequest
  <2>4. /\ UNCHANGED <<writeVars, readVars, readBuffer, serverVars>>
        /\ writeBufferPending' = Append(writeBufferPending, proto')
        /\ made' = IF connected THEN Append(made, c) ELSE made
    BY <1>2, CallMakes
  <2>2. writeBufferPending' \in Seq(Frame)
    BY <1>0, <2>1, <2>4, AppendProperties DEF FlowTypes
  <2>3. made' \in Seq(Calls)
    BY <1>0, <2>4, AppendProperties DEF FlowTypes
  <2> QED
    BY <1>0, <2>1, <2>2, <2>3, <2>4 DEF FlowTypes
<1>3. CASE Connect
  BY <1>0, <1>3 DEF Connect, FlowTypes
<1>4. CASE CloseConnection
  BY <1>0, <1>4 DEF CloseConnection, FlowTypes
<1>5. CASE Reconnect
  BY <1>0, <1>5 DEF Reconnect, ResetBuffers, FlowTypes
<1>6. CASE Read
  <2>1. readBuffer \o buffer \in Seq(Byte)
    BY <1>0, ConcatProperties DEF FlowTypes
  <2>2. /\ readBuffer' \in {readBuffer, readBuffer \o buffer}
        /\ UNCHANGED <<buffer, receiving>> \/ buffer' = <<>>
    BY <1>6 DEF Read
  <2>3. receiving' \in Nat
    BY <1>6, StateTypesStep DEF StateTypes, Next, Update
  <2>4. buffer' \in Seq(Byte) /\ Len(buffer') <= receiving'
    <3>1. CASE UNCHANGED <<buffer, receiving>>
      BY <1>0, <3>1 DEF FlowTypes
    <3>2. CASE buffer' = <<>>
      BY <1>0, <2>3, <3>2
    <3> QED
      BY <2>2, <3>1, <3>2
  <2> QED
    BY <1>0, <1>6, <2>1, <2>2, <2>4 DEF Read, FlowTypes
<1>7. CASE Handle
  <2>1. UNCHANGED <<writeVars, receiving, buffer, made, serverVars>>
    BY <1>7, HandleTakes
  <2>2. CASE HandlesNothing /\ UNCHANGED readBuffer
    BY <1>0, <2>1, <2>2 DEF HandlesNothing, FlowTypes
  <2>3. ASSUME NEW f \in Frame, Takes(f)
        PROVE  FlowTypes'
    <3>1. SubSeq(readBuffer, Size + 1, Len(readBuffer)) \in Seq(Byte)
      BY <1>0, LengthNat, SizeFacts, SubSeqProperties DEF FlowTypes
    <3>2. proto' \in Proto /\ writeBufferPending' \in Seq(Frame)
      <4>1. CASE HandlesNothing
        BY <1>0, <4>1 DEF HandlesNothing, FlowTypes
      <4>2. CASE HandleResponse(f)
        BY <1>0, <4>2, FrameProto DEF HandleResponse, FlowTypes
      <4>3. CASE HandlesRequest(f)
        <5>1. proto' \in Frame
          BY <4>3 DEF HandlesRequest, IsAnswer
        <5>2. writeBufferPending' \in {writeBufferPending, Append(writeBufferPending, proto')}
          BY <4>3 DEF HandlesRequest
        <5>3. Append(writeBufferPending, proto') \in Seq(Frame)
          BY <1>0, <5>1, AppendProperties DEF FlowTypes
        <5> QED
          BY <1>0, <5>1, <5>2, <5>3, FrameProto DEF FlowTypes
      <4> QED
        BY <2>3, <4>1, <4>2, <4>3 DEF Takes
    <3>3. readBuffer' \in Seq(Byte)
      BY <2>3, <3>1 DEF Takes
    <3> QED
      BY <1>0, <2>1, <3>2, <3>3 DEF FlowTypes
  <2> QED
    BY <1>7, <2>2, <2>3, HandleTakes
<1>8. CASE Write
  BY <1>0, <1>8 DEF Write, FlowTypes
<1>9. CASE ConnectDone
  BY <1>0, <1>9 DEF ConnectDone, FlowTypes
<1>10. CASE SendDone
  <2>1. toServer \o writeBuffer \in Seq(Frame)
    BY <1>0, ConcatProperties DEF FlowTypes
  <2> QED
    BY <1>0, <1>10, <2>1 DEF SendDone, FlowTypes
<1>11. CASE ReceiveDone
  <2>1. PICK n \in 0..Min({receiving, Len(toClient)}) :
          /\ buffer' = SubSeq(toClient, 1, n)
          /\ toClient' = SubSeq(toClient, n + 1, Len(toClient))
    BY <1>11 DEF ReceiveDone
  <2>2. /\ toClient \in Seq(Byte) /\ Len(toClient) \in Nat
        /\ Min({receiving, Len(toClient)}) \in Nat
        /\ Min({receiving, Len(toClient)}) <= receiving /\ Min({receiving, Len(toClient)}) <= Len(toClient)
    BY <1>0, LengthNat, SmallerOf DEF FlowTypes
  <2>3. n \in Nat /\ n <= receiving /\ n <= Len(toClient)
    BY <1>0, <2>2
  <2>4. buffer' \in Seq(Byte) /\ Len(buffer') = n /\ toClient' \in Seq(Byte)
    BY <2>1, <2>2, <2>3, SubSeqProperties
  <2>5. UNCHANGED <<writeVars, writeBufferPending, receiving, readBuffer, proto, callVars,
                    toServer, serving, served>>
    BY <1>11 DEF ReceiveDone
  <2> QED
    BY <1>0, <2>3, <2>4, <2>5 DEF FlowTypes
<1>12. CASE ConnectionLost
  BY <1>0, <1>12 DEF ConnectionLost, FlowTypes
<1>13. CASE ServerTakes
  <2>1. PICK f : f = Head(toServer)
    OBVIOUS
  <2>2. f \in Frame /\ Tail(toServer) \in Seq(Frame)
    BY <1>0, <1>13, <2>1, HeadTailProperties DEF ServerTakes, FlowTypes
  <2>3. f.message[2] \in Names
    BY <2>2, FrameProto
  <2>4. Append(served, f.message[2]) \in Seq(Names)
    BY <1>0, <2>3, AppendProperties DEF FlowTypes
  <2>5. /\ toServer' = Tail(toServer)
        /\ served' \in {served, Append(served, f.message[2])}
        /\ serving' \in {serving, serving \cup {f}}
        /\ UNCHANGED <<writeVars, writeBufferPending, readVars, readBuffer, proto, callVars, toClient>>
    BY <1>13, <2>1 DEF ServerTakes
  <2> QED
    BY <1>0, <2>2, <2>4, <2>5 DEF FlowTypes
<1>14. CASE ServerAnswers \/ \E s \in ServerCalls : ServerCall(s)
  <2>1. PICK f \in Frame : toClient' = toClient \o Bytes(f) /\ serving' \subseteq serving
    BY <1>14, ServerMakes
  <2>2. toClient' \in Seq(Byte)
    BY <1>0, <2>1, BytesFacts, ConcatProperties DEF FlowTypes
  <2>3. UNCHANGED <<writeVars, writeBufferPending, readVars, readBuffer, proto, callVars, toServer, served>>
    BY <1>14, Zenon DEF ServerAnswers, ServerCall
  <2> QED
    BY <1>0, <2>1, <2>2, <2>3 DEF FlowTypes
<1> QED
  BY <1>1, <1>2, <1>3, <1>4, <1>5, <1>6, <1>7, <1>8, <1>9, <1>10, <1>11, <1>12, <1>13, <1>14
  DEF Next, Update, Socket

-----------------------------------------------------------------------------
(* Who waits under which id                                                *)

(* A call is registered by its method under an id that has been given, for *)
(* as long as it waits, and under one only.                                *)
RequestsInv ==
  /\ \A m \in Methods : \A i \in DOMAIN requests[m] :
       /\ i \in 1..transmitId[m]
       /\ requests[m][i] \in Calls \ OneWay /\ Method[requests[m][i]] = m
       /\ call[requests[m][i]] = "waiting"
  /\ \A m \in Methods : \A i, j \in DOMAIN requests[m] : requests[m][i] = requests[m][j] => i = j
  /\ \A c \in Calls : call[c] = "waiting" =>
       \E i \in DOMAIN requests[Method[c]] : requests[Method[c]][i] = c

CallInv == CallTypes /\ RequestsInv

(* The steps that matter to the callers.                                   *)
Calling(c) ==
  /\ call[c] = "unsent" /\ UNCHANGED answer
  /\ IF c \in OneWay THEN SendNotify(c) ELSE SendRequest(c)

Clearing == ClearRequests /\ UNCHANGED <<transmitId, answer>>

Answering(f) == Takes(f) /\ ~f.stub /\ HandleResponse(f) /\ UNCHANGED transmitId

CallersRest == UNCHANGED <<transmitId, requests, call, answer>>

LEMMA CallersStep ==
  ASSUME Types, [Next]_vars
  PROVE  \/ CallersRest
         \/ \E c \in Calls : CallMethod(c) /\ Calling(c)
         \/ (CloseConnection \/ Reconnect) /\ Clearing
         \/ Handle /\ \E f \in Frame : Answering(f)
<1> USE DEF connectVars, writeVars, readVars, callVars, serverVars, CallersRest
<1>1. CASE UNCHANGED vars
  BY <1>1 DEF vars
<1>2. ASSUME NEW c \in Calls, CallMethod(c)
      PROVE  Calling(c)
  BY <1>2 DEF CallMethod, Calling
<1>3. CASE CloseConnection
  BY <1>3 DEF CloseConnection, Clearing
<1>4. CASE Reconnect
  BY <1>4 DEF Reconnect, Clearing
<1>5. CASE Handle
  <2>1. UNCHANGED transmitId
    BY <1>5, HandleTakes
  <2>2. HandlesNothing \/ \E f \in Frame : Takes(f)
    BY <1>5, HandleTakes
  <2>3. ASSUME NEW f \in Frame, Takes(f)
        PROVE  CallersRest \/ Answering(f)
    BY <2>1, <2>3 DEF Takes, Answering, HandlesNothing, HandlesRequest
  <2> QED
    BY <1>5, <2>1, <2>2, <2>3 DEF HandlesNothing
<1>6. CASE Connect \/ Read \/ Write
  BY <1>6 DEF Connect, Read, Write
<1>7. CASE ConnectDone \/ SendDone \/ ReceiveDone \/ ConnectionLost
  BY <1>7 DEF ConnectDone, SendDone, ReceiveDone, ConnectionLost
<1>8. CASE ServerTakes
  BY <1>8 DEF ServerTakes
<1>9. CASE ServerAnswers \/ \E s \in ServerCalls : ServerCall(s)
  <2>1. UNCHANGED <<callVars, answer>>
    BY <1>9, Zenon DEF ServerAnswers, ServerCall
  <2> QED
    BY <2>1
<1> QED
  BY <1>1, <1>2, <1>3, <1>4, <1>5, <1>6, <1>7, <1>8, <1>9 DEF Next, Update, Socket

(* A call gets the next id of its method.                                  *)
LEMMA RequestRegistered ==
  ASSUME CallInv, NEW c \in Calls, c \notin OneWay, Calling(c), NEW m, m = Method[c]
  PROVE  LET n == transmitId[m] + 1
         IN /\ m \in Methods /\ n \in Nat \ {0} /\ n \notin DOMAIN requests[m]
            /\ transmitId' = [transmitId EXCEPT ![m] = n]
            /\ call' = [call EXCEPT ![c] = "waiting"]
            /\ DOMAIN requests' = Methods /\ requests' = [k \in Methods |-> requests'[k]]
            /\ \A k \in Methods : k # m => requests'[k] = requests[k]
            /\ DOMAIN requests'[m] = DOMAIN requests[m] \cup {n}
            /\ requests'[m][n] = c
            /\ \A i \in DOMAIN requests[m] : requests'[m][i] = requests[m][i]
<1> DEFINE n == transmitId[m] + 1
           R == [i \in DOMAIN requests[m] \cup {n} |-> IF i = n THEN c ELSE requests[m][i]]
<1>1. m \in Methods /\ transmitId \in [Methods -> Nat]
  BY NameMessages DEF Names, CallInv, CallTypes
<1>2. n \in Nat \ {0} /\ n > transmitId[m]
  BY <1>1
<1>3. n \notin DOMAIN requests[m]
  BY <1>1, <1>2 DEF CallInv, RequestsInv
<1>4. /\ transmitId' = [transmitId EXCEPT ![m] = n]
      /\ requests' = [requests EXCEPT ![m] = R]
      /\ call' = [call EXCEPT ![c] = "waiting"]
  BY DEF Calling, SendRequest, NextId
<1>5. /\ DOMAIN R = DOMAIN requests[m] \cup {n} /\ R[n] = c
      /\ \A i \in DOMAIN requests[m] : R[i] = requests[m][i]
  BY <1>3
<1> HIDE DEF R, n
<1>6. /\ DOMAIN requests' = Methods /\ requests' = [k \in Methods |-> requests'[k]]
      /\ requests'[m] = R /\ \A k \in Methods : k # m => requests'[k] = requests[k]
  BY <1>1, <1>4 DEF CallInv, CallTypes
<1> QED
  BY <1>1, <1>2, <1>3, <1>4, <1>5, <1>6 DEF n

LEMMA CallingKeeps ==
  ASSUME CallInv, NEW c \in Calls, Calling(c)
  PROVE  CallInv'
<1>0. call \in [Calls -> {"unsent", "waiting", "done", "lost"}] /\ call[c] = "unsent"
      /\ answer' = [d \in Calls |-> answer'[d]]
  BY DEF CallInv, CallTypes, Calling
<1>1. CASE c \in OneWay
  <2>1. call' = [call EXCEPT ![c] = "done"] /\ UNCHANGED <<transmitId, requests, answer>>
    BY <1>1 DEF Calling, SendNotify
  <2>2. \A d \in Calls : call'[d] = "waiting" <=> call[d] = "waiting"
    BY <1>0, <2>1
  <2>3. RequestsInv'
    BY <2>1, <2>2 DEF CallInv, RequestsInv
  <2> QED
    BY <1>0, <2>1, <2>3 DEF CallInv, CallTypes
<1>2. CASE c \notin OneWay
  <2>1. PICK m : m = Method[c]
    OBVIOUS
  <2>2. PICK n : n = transmitId[m] + 1
    OBVIOUS
  <2>3. /\ m \in Methods /\ n \in Nat \ {0} /\ n \notin DOMAIN requests[m]
        /\ transmitId' = [transmitId EXCEPT ![m] = n]
        /\ call' = [call EXCEPT ![c] = "waiting"]
        /\ DOMAIN requests' = Methods /\ requests' = [k \in Methods |-> requests'[k]]
        /\ \A k \in Methods : k # m => requests'[k] = requests[k]
        /\ DOMAIN requests'[m] = DOMAIN requests[m] \cup {n}
        /\ requests'[m][n] = c
        /\ \A i \in DOMAIN requests[m] : requests'[m][i] = requests[m][i]
    BY <1>2, <2>1, <2>2, RequestRegistered
  <2>4. CallTypes'
    BY <1>0, <2>3 DEF CallInv, CallTypes
  <2>5. /\ \A d \in Calls : d # c => call'[d] = call[d]
        /\ call'[c] = "waiting"
        /\ \A k \in Methods : transmitId'[k] = IF k = m THEN n ELSE transmitId[k]
        /\ \A k \in Methods : transmitId[k] \in Nat
    BY <1>0, <2>3 DEF CallInv, CallTypes
  <2>6. ASSUME NEW k \in Methods, NEW i \in DOMAIN requests'[k]
        PROVE  /\ i \in 1..transmitId'[k]
               /\ requests'[k][i] \in Calls \ OneWay /\ Method[requests'[k][i]] = k
               /\ call'[requests'[k][i]] = "waiting"
               /\ (i = n /\ k = m) \/ (i \in DOMAIN requests[k] /\ requests'[k][i] # c)
    <3>1. CASE k = m /\ i = n
      BY <1>2, <2>1, <2>3, <2>5, <3>1
    <3>2. CASE ~(k = m /\ i = n)
      <4>1. i \in DOMAIN requests[k] /\ requests'[k][i] = requests[k][i]
        BY <2>3, <3>2
      <4>2. /\ i \in 1..transmitId[k]
            /\ requests[k][i] \in Calls \ OneWay /\ Method[requests[k][i]] = k
            /\ call[requests[k][i]] = "waiting"
        BY <4>1 DEF CallInv, RequestsInv
      <4>3. requests[k][i] # c
        BY <1>0, <4>2
      <4>4. transmitId[k] <= transmitId'[k] /\ transmitId'[k] \in Nat
        BY <2>2, <2>3, <2>5
      <4> QED
        BY <2>5, <4>1, <4>2, <4>3, <4>4
    <3> QED
      BY <3>1, <3>2
  <2>7. ASSUME NEW k \in Methods, NEW i \in DOMAIN requests'[k], NEW j \in DOMAIN requests'[k],
               requests'[k][i] = requests'[k][j]
        PROVE  i = j
    <3>1. CASE k = m /\ (i = n \/ j = n)
      BY <2>3, <2>6, <2>7, <3>1
    <3>2. CASE ~(k = m /\ (i = n \/ j = n))
      <4>1. /\ i \in DOMAIN requests[k] /\ requests'[k][i] = requests[k][i]
            /\ j \in DOMAIN requests[k] /\ requests'[k][j] = requests[k][j]
        BY <2>3, <3>2
      <4>2. requests[k][i] = requests[k][j]
        BY <2>7, <4>1
      <4> QED
        BY <4>1, <4>2, Zenon DEF CallInv, RequestsInv
    <3> QED
      BY <3>1, <3>2
  <2>8. ASSUME NEW d \in Calls, call'[d] = "waiting"
        PROVE  \E i \in DOMAIN requests'[Method[d]] : requests'[Method[d]][i] = d
    <3>1. CASE d = c
      BY <2>1, <2>3, <3>1
    <3>2. CASE d # c
      <4>1. PICK i \in DOMAIN requests[Method[d]] : requests[Method[d]][i] = d
        BY <2>5, <2>8, <3>2 DEF CallInv, RequestsInv
      <4>2. Method[d] \in Methods
        BY NameMessages DEF Names
      <4> QED
        BY <2>3, <4>1, <4>2
    <3> QED
      BY <3>1, <3>2
  <2> QED
    BY <2>4, <2>6, <2>7, <2>8 DEF CallInv, RequestsInv
<1> QED
  BY <1>1, <1>2

LEMMA ClearingKeeps ==
  ASSUME CallInv, Clearing
  PROVE  CallInv' /\ \A m \in Methods : DOMAIN requests'[m] = {}
<1>1. /\ requests' = [m \in Methods |-> [id \in {} |-> 0]]
      /\ call' = [c \in Calls |-> IF call[c] = "waiting" THEN "lost" ELSE call[c]]
      /\ UNCHANGED <<transmitId, answer>>
  BY DEF Clearing, ClearRequests
<1>2. \A m \in Methods : DOMAIN requests'[m] = {}
  BY <1>1
<1>3. DOMAIN requests' = Methods /\ requests' = [m \in Methods |-> requests'[m]]
  BY <1>1
<1>4. \A c \in Calls : call'[c] # "waiting" /\ call'[c] \in {"unsent", "waiting", "done", "lost"}
  BY <1>1 DEF CallInv, CallTypes
<1>5. CallTypes'
  BY <1>1, <1>3, <1>4 DEF CallInv, CallTypes
<1>6. RequestsInv'
  BY <1>2, <1>4 DEF RequestsInv
<1> QED
  BY <1>2, <1>5, <1>6 DEF CallInv

LEMMA RestKeeps ==
  ASSUME CallInv, CallersRest
  PROVE  CallInv'
<1>1. CallTypes'
  BY DEF CallInv, CallersRest, CallTypes
<1>2. RequestsInv'
  BY DEF CallInv, CallersRest, RequestsInv
<1> QED
  BY <1>1, <1>2 DEF CallInv

(* An answer ends the call that is registered under its id.                *)
LEMMA AnsweringKeeps ==
  ASSUME CallInv, NEW f \in Frame, Answering(f)
  PROVE  CallInv'
<1> DEFINE m == f.method
           n == f.transmit_id
<1>1. m \in Methods
  BY FrameProto
<1>2. CASE n \notin DOMAIN requests[m]
  <2>1. CallersRest
    BY <1>2 DEF Answering, HandleResponse, CallersRest
  <2> QED
    BY <2>1, RestKeeps
<1>3. CASE n \in DOMAIN requests[m]
  <2>1. PICK c : c = requests[m][n]
    OBVIOUS
  <2>2. PICK R : R = [i \in DOMAIN requests[m] \ {n} |-> requests[m][i]]
    OBVIOUS
  <2>3. /\ requests' = [requests EXCEPT ![m] = R]
        /\ call' = [call EXCEPT ![c] = "done"]
        /\ answer' = [answer EXCEPT ![c] = f.message]
        /\ UNCHANGED transmitId
    BY <1>3, <2>1, <2>2 DEF Answering, HandleResponse
  <2>4. c \in Calls \ OneWay /\ Method[c] = m /\ call[c] = "waiting"
    BY <1>1, <1>3, <2>1 DEF CallInv, RequestsInv
  <2>5. DOMAIN R = DOMAIN requests[m] \ {n} /\ \A i \in DOMAIN R : R[i] = requests[m][i]
    BY <2>2
  <2>6. /\ DOMAIN requests' = Methods /\ requests' = [k \in Methods |-> requests'[k]]
        /\ requests'[m] = R /\ \A k \in Methods : k # m => requests'[k] = requests[k]
    BY <1>1, <2>3 DEF CallInv, CallTypes
  <2>7. /\ \A d \in Calls : call'[d] = IF d = c THEN "done" ELSE call[d]
        /\ call' \in [Calls -> {"unsent", "waiting", "done", "lost"}]
        /\ answer' = [d \in Calls |-> answer'[d]]
    BY <2>3, <2>4 DEF CallInv, CallTypes
  <2> HIDE DEF m, n
  <2>8. ASSUME NEW k \in Methods, NEW i \in DOMAIN requests'[k]
        PROVE  /\ i \in DOMAIN requests[k] /\ requests'[k][i] = requests[k][i]
               /\ i \in 1..transmitId'[k]
               /\ requests'[k][i] \in Calls \ OneWay /\ Method[requests'[k][i]] = k
               /\ call'[requests'[k][i]] = "waiting"
    <3>1. i \in DOMAIN requests[k] /\ requests'[k][i] = requests[k][i] /\ ~(k = m /\ i = n)
      BY <2>5, <2>6
    <3>2. /\ i \in 1..transmitId[k]
          /\ requests[k][i] \in Calls \ OneWay /\ Method[requests[k][i]] = k
          /\ call[requests[k][i]] = "waiting"
      BY <3>1 DEF CallInv, RequestsInv
    <3>3. requests[k][i] # c
      BY <1>1, <1>3, <2>1, <2>4, <3>1, <3>2 DEF CallInv, RequestsInv
    <3> QED
      BY <2>3, <2>7, <3>1, <3>2, <3>3
  <2>9. ASSUME NEW k \in Methods, NEW i \in DOMAIN requests'[k], NEW j \in DOMAIN requests'[k],
               requests'[k][i] = requests'[k][j]
        PROVE  i = j
    <3>1. requests[k][i] = requests[k][j] /\ i \in DOMAIN requests[k] /\ j \in DOMAIN requests[k]
      BY <2>8, <2>9
    <3> QED
      BY <3>1 DEF CallInv, RequestsInv
  <2>10. ASSUME NEW d \in Calls, call'[d] = "waiting"
         PROVE  \E i \in DOMAIN requests'[Method[d]] : requests'[Method[d]][i] = d
    <3>1. d # c /\ call[d] = "waiting"
      BY <2>7, <2>10
    <3>2. PICK i \in DOMAIN requests[Method[d]] : requests[Method[d]][i] = d
      BY <3>1 DEF CallInv, RequestsInv
    <3>3. Method[d] \in Methods
      BY NameMessages DEF Names
    <3>4. ~(Method[d] = m /\ i = n)
      BY <2>1, <3>1, <3>2
    <3> QED
      BY <2>5, <2>6, <3>2, <3>3, <3>4
  <2>11. CallTypes'
    BY <2>3, <2>6, <2>7 DEF CallInv, CallTypes
  <2> QED
    BY <2>8, <2>9, <2>10, <2>11 DEF CallInv, RequestsInv
<1> QED
  BY <1>2, <1>3

TypeInv == StateTypes /\ FlowTypes /\ CallInv

LEMMA TypeInvStep == TypeInv /\ [Next]_vars => TypeInv'
<1> SUFFICES ASSUME TypeInv, [Next]_vars PROVE TypeInv'
  OBVIOUS
<1>1. Types /\ CallInv
  BY DEF TypeInv, Types, CallInv
<1>2. CallInv'
  <2> QED
    BY <1>1, CallersStep, RestKeeps, CallingKeeps, ClearingKeeps, AnsweringKeeps
<1> QED
  BY <1>1, <1>2, StateTypesStep, FlowTypesStep DEF TypeInv

LEMMA TypeInvCorrect == Spec => []TypeInv
<1>1. Init => TypeInv
  <2> SUFFICES ASSUME Init PROVE TypeInv
    OBVIOUS
  <2>1. StateTypes
    <3>1. reconnect \in -1..Max({Reconnects, 0})
      <4>1. Reconnects \in Int /\ Reconnects >= -1
        BY BoundAssumption
      <4>2. Max({Reconnects, 0}) \in Int /\ Max({Reconnects, 0}) >= Reconnects
        BY <4>1, LargerOf
      <4>3. reconnect = Reconnects
        BY DEF Init
      <4> QED
        BY <4>1, <4>2, <4>3
    <3>2. lackLength = 0 /\ receiving = 0
      BY Zenon DEF Init
    <3>3. lackLength \in 0..Prefix + Body /\ receiving \in Nat
      BY <3>2, SizeAssumption
    <3>4. /\ pc = "idle" /\ connected = FALSE /\ asyncConnect = "pending" /\ link = "none"
          /\ asyncRead = "null" /\ asyncWrite = "null"
      BY Zenon DEF Init
    <3> QED
      BY <3>1, <3>3, <3>4 DEF StateTypes
  <2>2. FlowTypes
    <3>1. proto \in Proto
      BY DEF Init, Proto, ControllerProto, NoMethod
    <3>2. /\ writeBuffer = <<>> /\ writeBufferPending = <<>> /\ toServer = <<>> /\ serving = {}
          /\ readBuffer = <<>> /\ buffer = <<>> /\ toClient = <<>> /\ receiving = 0
          /\ made = <<>> /\ served = <<>>
      BY Zenon DEF Init
    <3> QED
      BY <3>1, <3>2, EmptySeq DEF FlowTypes
  <2>3. /\ transmitId = [m \in Methods |-> 0] /\ requests = [m \in Methods |-> [id \in {} |-> 0]]
        /\ call = [c \in Calls |-> "unsent"] /\ answer = [c \in Calls |-> <<>>]
    BY Zenon DEF Init
  <2>4. CallTypes
    BY <2>3 DEF CallTypes
  <2>5. RequestsInv
    <3>1. /\ \A m \in Methods : DOMAIN requests[m] = {}
          /\ \A c \in Calls : call[c] # "waiting"
      BY <2>3
    <3> QED
      BY <3>1 DEF RequestsInv
  <2> QED
    BY <2>1, <2>2, <2>4, <2>5 DEF TypeInv, CallInv
<1> QED
  BY <1>1, TypeInvStep, PTL DEF Spec

(* A call waits exactly as long as its callback can be found, Read never   *)
(* asks for a negative number of bytes nor gets more than it asked for,    *)
(* and nothing is under way without a connection.                          *)
THEOREM TypeCorrect == Spec => []TypeOK
<1>1. TypeInv => TypeOK
  <2> SUFFICES ASSUME TypeInv PROVE TypeOK
    OBVIOUS
  <2>1. \A m \in Methods : DOMAIN requests[m] \subseteq 1..transmitId[m]
    BY DEF TypeInv, CallInv, RequestsInv
  <2>2. ASSUME NEW c \in Calls
        PROVE  /\ call[c] \in {"unsent", "waiting", "done", "lost"}
               /\ call[c] = "waiting" <=>
                    \E i \in DOMAIN requests[Method[c]] : requests[Method[c]][i] = c
    <3>1. Method[c] \in Methods
      BY NameMessages DEF Names
    <3> QED
      BY <3>1 DEF TypeInv, CallInv, CallTypes, RequestsInv
  <2> QED
    BY <2>1, <2>2 DEF TypeInv, StateTypes, FlowTypes, TypeOK
<1> QED
  BY <1>1, TypeInvCorrect, PTL

-----------------------------------------------------------------------------
(* What is under way                                                       *)

Elems(s) == {s[i] : i \in 1..Len(s)}

LEMMA ElemsEmpty == Elems(<<>>) = {}
BY DEF Elems

LEMMA ElemsAppend ==
  ASSUME NEW S, NEW s \in Seq(S), NEW x \in S
  PROVE  Elems(Append(s, x)) = Elems(s) \cup {x}
<1>1. Len(s) \in Nat
  BY LengthNat
<1>2. /\ Len(Append(s, x)) = Len(s) + 1
      /\ \A i \in 1..Len(s) : Append(s, x)[i] = s[i]
      /\ Append(s, x)[Len(s) + 1] = x
  BY AppendProperties
<1>3. ASSUME NEW y \in Elems(Append(s, x))
      PROVE  y \in Elems(s) \cup {x}
  BY <1>1, <1>2, <1>3 DEF Elems
<1>4. ASSUME NEW y \in Elems(s) \cup {x}
      PROVE  y \in Elems(Append(s, x))
  <2>1. CASE y \in Elems(s)
    <3>1. PICK i \in 1..Len(s) : y = s[i]
      BY <2>1 DEF Elems
    <3>2. i \in 1..Len(Append(s, x)) /\ y = Append(s, x)[i]
      BY <1>1, <1>2, <3>1
    <3> QED
      BY <3>2 DEF Elems
  <2>2. CASE y = x
    <3>1. Len(s) + 1 \in 1..Len(Append(s, x)) /\ y = Append(s, x)[Len(s) + 1]
      BY <1>1, <1>2, <2>2
    <3> QED
      BY <3>1 DEF Elems
  <2> QED
    BY <1>4, <2>1, <2>2
<1> QED
  BY <1>3, <1>4

LEMMA ElemsConcat ==
  ASSUME NEW S, NEW s \in Seq(S), NEW t \in Seq(S)
  PROVE  Elems(s \o t) = Elems(s) \cup Elems(t)
<1>1. Len(s) \in Nat /\ Len(t) \in Nat
  BY LengthNat
<1>2. /\ Len(s \o t) = Len(s) + Len(t)
      /\ \A i \in 1..Len(s) + Len(t) : (s \o t)[i] = IF i <= Len(s) THEN s[i] ELSE t[i - Len(s)]
  BY ConcatProperties
<1>3. ASSUME NEW y \in Elems(s \o t)
      PROVE  y \in Elems(s) \cup Elems(t)
  <2>1. PICK i \in 1..Len(s) + Len(t) : y = (s \o t)[i]
    BY <1>2, <1>3 DEF Elems
  <2>2. CASE i <= Len(s)
    <3>1. i \in 1..Len(s) /\ y = s[i]
      BY <1>1, <1>2, <2>1, <2>2
    <3> QED
      BY <3>1 DEF Elems
  <2>3. CASE ~(i <= Len(s))
    <3>1. i - Len(s) \in 1..Len(t) /\ y = t[i - Len(s)]
      BY <1>1, <1>2, <2>1, <2>3
    <3> QED
      BY <3>1 DEF Elems
  <2> QED
    BY <2>2, <2>3
<1>4. ASSUME NEW y \in Elems(s)
      PROVE  y \in Elems(s \o t)
  <2>1. PICK i \in 1..Len(s) : y = s[i]
    BY <1>4 DEF Elems
  <2>2. i \in 1..Len(s \o t) /\ y = (s \o t)[i]
    BY <1>1, <1>2, <2>1
  <2> QED
    BY <2>2 DEF Elems
<1>5. ASSUME NEW y \in Elems(t)
      PROVE  y \in Elems(s \o t)
  <2>1. PICK i \in 1..Len(t) : y = t[i]
    BY <1>5 DEF Elems
  <2>2. PICK j : j = i + Len(s)
    OBVIOUS
  <2>3. j \in 1..Len(s) + Len(t) /\ ~(j <= Len(s)) /\ j - Len(s) = i
    BY <1>1, <2>1, <2>2
  <2>4. j \in 1..Len(s \o t) /\ y = (s \o t)[j]
    BY <1>2, <2>1, <2>3
  <2> QED
    BY <2>4 DEF Elems
<1> QED
  BY <1>3, <1>4, <1>5

LEMMA ElemsSubSeq ==
  ASSUME NEW S, NEW s \in Seq(S), NEW i \in 1..Len(s) + 1, NEW j \in 0..Len(s)
  PROVE  Elems(SubSeq(s, i, j)) \subseteq Elems(s)
<1>1. Len(s) \in Nat
  BY LengthNat
<1>2. /\ Len(SubSeq(s, i, j)) = IF i <= j THEN j - i + 1 ELSE 0
      /\ \A k \in 1..j - i + 1 : SubSeq(s, i, j)[k] = s[i + k - 1]
  BY SubSeqProperties
<1> SUFFICES ASSUME NEW y \in Elems(SubSeq(s, i, j)) PROVE y \in Elems(s)
  OBVIOUS
<1>3. PICK k \in 1..Len(SubSeq(s, i, j)) : y = SubSeq(s, i, j)[k]
  BY DEF Elems
<1>4. i <= j /\ k \in 1..j - i + 1
  BY <1>1, <1>2, <1>3
<1>5. y = s[i + k - 1] /\ i + k - 1 \in 1..Len(s)
  BY <1>1, <1>2, <1>3, <1>4
<1> QED
  BY <1>5 DEF Elems

LEMMA ElemsTail ==
  ASSUME NEW S, NEW s \in Seq(S), s # <<>>
  PROVE  /\ Head(s) \in Elems(s) /\ Elems(Tail(s)) \subseteq Elems(s)
<1>1. Len(s) \in Nat \ {0} /\ Head(s) = s[1]
  BY LengthNat, EmptySeq, HeadTailProperties
<1>2. /\ Len(Tail(s)) = Len(s) - 1
      /\ \A i \in 1..Len(Tail(s)) : Tail(s)[i] = s[i + 1]
  BY HeadTailProperties
<1>3. Head(s) \in Elems(s)
  BY <1>1 DEF Elems
<1>4. ASSUME NEW y \in Elems(Tail(s))
      PROVE  y \in Elems(s)
  <2>1. PICK i \in 1..Len(Tail(s)) : y = Tail(s)[i]
    BY <1>4 DEF Elems
  <2>2. i + 1 \in 1..Len(s) /\ y = s[i + 1]
    BY <1>1, <1>2, <2>1
  <2> QED
    BY <2>2 DEF Elems
<1> QED
  BY <1>3, <1>4

LEMMA ElemsBytes ==
  ASSUME NEW f \in Frame, NEW b \in Elems(Bytes(f))
  PROVE  b[1] = f
BY BytesFacts DEF Elems

(* The frames to the server, and those from it.                            *)
Sending == Elems(writeBufferPending) \cup Elems(writeBuffer) \cup Elems(toServer)

Arriving == {b[1] : b \in Elems(readBuffer) \cup Elems(buffer) \cup Elems(toClient)}

(* Frames go on or get lost, and new ones are sent or come.                *)
Moves(new, coming) ==
  /\ Sending' \subseteq Sending \cup new
  /\ Arriving' \subseteq Arriving \cup coming
  /\ serving' \subseteq serving \cup {f \in Sending : f.stub /\ f.message[2] \notin OneWay}

NothingUnderWay == toServer = <<>> /\ toClient = <<>> /\ buffer = <<>> /\ serving = {}

FrameCalls(c) ==
  /\ Calling(c) /\ UNCHANGED connected /\ Moves({proto'}, {})
  /\ \E i \in Nat : IsRequest(proto', c, i, proto) /\ (c \notin OneWay => i = NextId(Method[c]))

FrameServed(f) ==
  /\ f \in Arriving /\ connected /\ UNCHANGED <<connected, transmitId>>
  /\ HandlesRequest(f)
  /\ \/ proto' = f /\ Moves({}, {})
     \/ IsAnswer(proto', f, f.failed, <<"response", f.message[2]>>) /\ Moves({proto'}, {})

FrameAnswers(f) ==
  /\ f \in Arriving /\ connected /\ UNCHANGED connected
  /\ Answering(f) /\ Moves({}, {})

FrameComes(f) ==
  /\ CallersRest /\ UNCHANGED <<connected, proto>> /\ Moves({}, {f})
  /\ \/ f.stub /\ ~f.failed /\ f.message[2] \in ServerCalls
     \/ /\ ~f.stub
        /\ \E g \in serving :
             /\ f.failed <=> (g.failed \/ g.message[2] \in Failing)
             /\ \/ IsAnswer(f, g, f.failed, <<"response", g.message[2]>>)
                \/ f.failed /\ IsAnswer(f, g, TRUE, g.message)

FramesClosed == Clearing /\ UNCHANGED proto /\ Moves({}, {}) /\ ~connected'

FramesOpened ==
  /\ Clearing /\ UNCHANGED <<proto, serving>> /\ ~connected /\ connected'
  /\ Sending' \subseteq Elems(toServer)
  /\ Arriving' \subseteq {b[1] : b \in Elems(buffer) \cup Elems(toClient)}

FramesMove == CallersRest /\ UNCHANGED <<connected, proto>> /\ Moves({}, {})

LEMMA FramesStep ==
  ASSUME Types, [Next]_vars
  PROVE  \/ FramesMove \/ FramesClosed \/ FramesOpened
         \/ \E c \in Calls : FrameCalls(c)
         \/ \E f \in Frame : FrameServed(f) \/ FrameAnswers(f) \/ FrameComes(f)
<1> USE DEF connectVars, writeVars, readVars, callVars, serverVars
<1>0. FlowTypes /\ pc # "idle" => connected
  BY DEF Types, StateTypes
<1>a. /\ writeBuffer \in Seq(Frame) /\ writeBufferPending \in Seq(Frame) /\ toServer \in Seq(Frame)
      /\ readBuffer \in Seq(Byte) /\ buffer \in Seq(Byte) /\ toClient \in Seq(Byte)
      /\ serving \subseteq Frame /\ Len(buffer) \in Nat /\ Len(toClient) \in Nat /\ Len(readBuffer) \in Nat
  BY LengthNat DEF Types, FlowTypes
<1>b. pc \notin {"handle", "write"} \/ connected
  BY DEF Types, StateTypes
<1>1. CASE UNCHANGED vars
  BY <1>1 DEF vars, FramesMove, CallersRest, Moves, Sending, Arriving
<1>2. ASSUME NEW c \in Calls, CallMethod(c)
      PROVE  FrameCalls(c)
  <2>1. PICK i \in Nat : IsRequest(proto', c, i, proto) /\ (c \notin OneWay => i = NextId(Method[c]))
    BY <1>2, CallMakes
  <2>2. /\ writeBufferPending' = Append(writeBufferPending, proto')
        /\ UNCHANGED <<connected, writeBuffer, toServer, serving, readBuffer, buffer, toClient>>
    BY <1>2, CallMakes
  <2>3. Elems(writeBufferPending') = Elems(writeBufferPending) \cup {proto'}
    <3>1. proto' \in Frame
      BY <2>1 DEF IsRequest
    <3> QED
      BY <1>a, <2>2, <3>1, ElemsAppend
  <2>4. Moves({proto'}, {})
    BY <2>2, <2>3 DEF Moves, Sending, Arriving
  <2>5. Calling(c)
    BY <1>2 DEF CallMethod, Calling
  <2> QED
    BY <2>1, <2>2, <2>4, <2>5 DEF FrameCalls
<1>3. CASE Connect
  BY <1>3 DEF Connect, FramesMove, CallersRest, Moves, Sending, Arriving
<1>4. CASE CloseConnection
  <2>1. Moves({}, {})
    BY <1>4, ElemsEmpty DEF CloseConnection, Moves, Sending, Arriving
  <2> QED
    BY <1>4, <2>1 DEF CloseConnection, FramesClosed, Clearing
<1>5. CASE Reconnect
  <2>1. CASE connected'
    <3>1. ~connected /\ Clearing /\ ResetBuffers /\ UNCHANGED <<proto, serving, toServer, toClient, buffer>>
      BY <1>5, <2>1 DEF Reconnect, Clearing
    <3> QED
      BY <2>1, <3>1, ElemsEmpty DEF ResetBuffers, FramesOpened, Sending, Arriving
  <2>2. CASE ~connected'
    <3>1. /\ CallersRest /\ UNCHANGED <<connected, proto, serving, toServer, toClient, buffer>>
          /\ UNCHANGED <<readBuffer, writeBuffer, writeBufferPending>>
      BY <1>5, <2>2 DEF Reconnect, CallersRest
    <3> QED
      BY <3>1 DEF FramesMove, Moves, Sending, Arriving
  <2> QED
    BY <2>1, <2>2
<1>6. CASE Read
  <2>1. Elems(readBuffer') \cup Elems(buffer') \subseteq Elems(readBuffer) \cup Elems(buffer)
    <3>1. Elems(readBuffer \o buffer) = Elems(readBuffer) \cup Elems(buffer)
      BY <1>a, ElemsConcat
    <3> QED
      BY <1>6, <3>1, ElemsEmpty DEF Read
  <2>2. /\ UNCHANGED <<connected, proto, serving, toServer, toClient, writeBuffer, writeBufferPending>>
        /\ CallersRest
    BY <1>6 DEF Read, CallersRest
  <2> QED
    BY <2>1, <2>2 DEF FramesMove, Moves, Sending, Arriving
<1>7. CASE Handle
  <2>1. /\ pc = "handle" /\ connected
        /\ UNCHANGED <<connected, transmitId, writeBuffer, toServer, serving, buffer, toClient>>
    BY <1>7, <1>b, HandleTakes
  <2>2. CASE HandlesNothing /\ UNCHANGED <<readBuffer, garbled>>
    BY <2>1, <2>2 DEF HandlesNothing, FramesMove, CallersRest, Moves, Sending, Arriving
  <2>3. ASSUME NEW f \in Frame, Takes(f)
        PROVE  FramesMove \/ FrameServed(f) \/ FrameAnswers(f)
    <3>1. /\ Len(readBuffer) >= Size /\ f = readBuffer[1][1]
          /\ readBuffer' = SubSeq(readBuffer, Size + 1, Len(readBuffer))
      BY <2>3 DEF Takes
    <3>2. f \in Arriving
      <4>1. readBuffer[1] \in Elems(readBuffer)
        BY <1>a, <3>1, SizeFacts DEF Elems
      <4> QED
        BY <3>1, <4>1 DEF Arriving
    <3>3. Elems(readBuffer') \subseteq Elems(readBuffer)
      <4>1. Size + 1 \in 1..Len(readBuffer) + 1 /\ Len(readBuffer) \in 0..Len(readBuffer)
        BY <1>a, <3>1, SizeFacts
      <4> QED
        BY <1>a, <3>1, <4>1, ElemsSubSeq
    <3>4. Arriving' \subseteq Arriving
      BY <2>1, <3>3 DEF Arriving
    <3>5. UNCHANGED writeBufferPending => Moves({}, {})
      BY <2>1, <3>4 DEF Moves, Sending
    <3>6. CASE HandlesNothing
      BY <2>1, <3>5, <3>6 DEF HandlesNothing, FramesMove, CallersRest
    <3>7. CASE HandlesRequest(f)
      <4>1. CASE proto' = f /\ UNCHANGED writeBufferPending
        BY <2>1, <3>2, <3>5, <3>7, <4>1 DEF FrameServed
      <4>2. CASE /\ IsAnswer(proto', f, f.failed, <<"response", f.message[2]>>)
                 /\ writeBufferPending' = Append(writeBufferPending, proto')
        <5>1. Elems(writeBufferPending') = Elems(writeBufferPending) \cup {proto'}
          <6>1. proto' \in Frame
            BY <4>2 DEF IsAnswer
          <6> QED
            BY <1>a, <4>2, <6>1, ElemsAppend
        <5>2. Moves({proto'}, {})
          BY <2>1, <3>4, <5>1 DEF Moves, Sending
        <5> QED
          BY <2>1, <3>2, <3>7, <4>2, <5>2 DEF FrameServed
      <4> QED
        BY <3>7, <4>1, <4>2 DEF HandlesRequest
    <3>8. CASE ~f.stub /\ HandleResponse(f)
      BY <2>1, <2>3, <3>2, <3>5, <3>8 DEF FrameAnswers, Answering, HandleResponse
    <3> QED
      BY <2>3, <3>6, <3>7, <3>8 DEF Takes
  <2> QED
    BY <1>7, <2>2, <2>3, HandleTakes
<1>8. CASE Write
  <2>1. Elems(writeBuffer') \cup Elems(writeBufferPending') \subseteq Elems(writeBuffer) \cup Elems(writeBufferPending)
    BY <1>8, ElemsEmpty DEF Write
  <2>2. /\ UNCHANGED <<connected, proto, serving, toServer, toClient, buffer, readBuffer>>
        /\ CallersRest
    BY <1>8 DEF Write, CallersRest
  <2> QED
    BY <2>1, <2>2 DEF FramesMove, Moves, Sending, Arriving
<1>9. CASE ConnectDone
  BY <1>9 DEF ConnectDone, FramesMove, CallersRest, Moves, Sending, Arriving
<1>10. CASE SendDone
  <2>1. Elems(toServer') \subseteq Elems(toServer) \cup Elems(writeBuffer)
    <3>1. Elems(toServer \o writeBuffer) = Elems(toServer) \cup Elems(writeBuffer)
      BY <1>a, ElemsConcat
    <3> QED
      BY <1>10, <3>1 DEF SendDone
  <2>2. /\ UNCHANGED <<connected, proto, serving, writeBuffer, writeBufferPending, toClient, buffer, readBuffer>>
        /\ CallersRest
    BY <1>10 DEF SendDone, CallersRest
  <2> QED
    BY <2>1, <2>2 DEF FramesMove, Moves, Sending, Arriving
<1>11. CASE ReceiveDone
  <2>1. PICK n \in 0..Min({receiving, Len(toClient)}) :
          /\ buffer' = SubSeq(toClient, 1, n)
          /\ toClient' = SubSeq(toClient, n + 1, Len(toClient))
    BY <1>11 DEF ReceiveDone
  <2>2. n \in Nat /\ n <= Len(toClient)
    <3>1. /\ Min({receiving, Len(toClient)}) \in Nat
          /\ Min({receiving, Len(toClient)}) <= Len(toClient)
      BY <1>a, SmallerOf DEF Types, StateTypes
    <3> QED
      BY <1>a, <2>1, <3>1
  <2>3. Elems(buffer') \subseteq Elems(toClient) /\ Elems(toClient') \subseteq Elems(toClient)
    <3>1. /\ 1 \in 1..Len(toClient) + 1 /\ n \in 0..Len(toClient)
          /\ n + 1 \in 1..Len(toClient) + 1 /\ Len(toClient) \in 0..Len(toClient)
      BY <1>a, <2>2
    <3> QED
      BY <1>a, <2>1, <3>1, ElemsSubSeq
  <2>4. /\ UNCHANGED <<connected, proto, serving, writeBuffer, writeBufferPending, toServer, readBuffer>>
        /\ CallersRest
    BY <1>11 DEF ReceiveDone, CallersRest
  <2> QED
    BY <2>3, <2>4 DEF FramesMove, Moves, Sending, Arriving
<1>12. CASE ConnectionLost
  <2>1. Elems(toServer') = {} /\ Elems(toClient') \subseteq Elems(toClient) /\ serving' = {}
    BY <1>12, ElemsEmpty DEF ConnectionLost
  <2>2. /\ UNCHANGED <<connected, proto, writeBuffer, writeBufferPending, buffer, readBuffer>>
        /\ CallersRest
    BY <1>12 DEF ConnectionLost, CallersRest
  <2> QED
    BY <2>1, <2>2 DEF FramesMove, Moves, Sending, Arriving
<1>13. CASE ServerTakes
  <2>1. PICK f : f = Head(toServer)
    OBVIOUS
  <2>2. toServer # <<>> /\ toServer' = Tail(toServer)
        /\ serving' = IF f.stub /\ f.message[2] \notin OneWay THEN serving \cup {f} ELSE serving
    BY <1>13, <2>1 DEF ServerTakes
  <2>3. f \in Elems(toServer) /\ Elems(toServer') \subseteq Elems(toServer)
    BY <1>a, <2>1, <2>2, ElemsTail
  <2>4. serving' \subseteq serving \cup {h \in Sending : h.stub /\ h.message[2] \notin OneWay}
    BY <2>2, <2>3 DEF Sending
  <2>5. /\ UNCHANGED <<connected, proto, writeBuffer, writeBufferPending, toClient, buffer, readBuffer>>
        /\ CallersRest
    BY <1>13 DEF ServerTakes, CallersRest
  <2> QED
    BY <2>3, <2>4, <2>5 DEF FramesMove, Moves, Sending, Arriving
<1>14. CASE ServerAnswers \/ \E s \in ServerCalls : ServerCall(s)
  <2>1. /\ UNCHANGED <<connected, proto, writeBuffer, writeBufferPending, toServer, buffer, readBuffer>>
        /\ CallersRest
    BY <1>14, Zenon DEF ServerAnswers, ServerCall, CallersRest
  <2>2. PICK f \in Frame :
           /\ toClient' = toClient \o Bytes(f)
           /\ \/ /\ ~f.stub
                 /\ \E g \in serving :
                      /\ serving' = serving \ {g}
                      /\ f.failed <=> (g.failed \/ g.message[2] \in Failing)
                      /\ \/ IsAnswer(f, g, f.failed, <<"response", g.message[2]>>)
                         \/ f.failed /\ IsAnswer(f, g, TRUE, g.message)
              \/ f.stub /\ ~f.failed /\ f.message[2] \in ServerCalls /\ UNCHANGED serving
    BY <1>14, ServerMakes
  <2>3. Elems(toClient') = Elems(toClient) \cup Elems(Bytes(f))
    BY <1>a, <2>2, BytesFacts, ElemsConcat
  <2>4. Arriving' \subseteq Arriving \cup {f}
    BY <2>1, <2>3, ElemsBytes DEF Arriving
  <2>5. serving' \subseteq serving
    BY <2>2
  <2>6. Moves({}, {f})
    BY <2>1, <2>4, <2>5 DEF Moves, Sending
  <2>7. FrameComes(f)
    BY <2>1, <2>2, <2>6 DEF FrameComes
  <2> QED
    BY <2>7
<1> QED
  BY <1>1, <1>2, <1>3, <1>4, <1>5, <1>6, <1>7, <1>8, <1>9, <1>10, <1>11, <1>12, <1>13, <1>14
  DEF Next, Update, Socket

(* Without a connection nothing is under way.                              *)
LEMMA QuietStep ==
  ASSUME Types, ~connected => NothingUnderWay, [Next]_vars, ~connected'
  PROVE  NothingUnderWay'
<1> USE DEF connectVars, writeVars, readVars, callVars, serverVars
<1>0. StateTypes
  BY DEF Types
<1>1. CASE UNCHANGED vars
  BY <1>1 DEF vars, NothingUnderWay
<1>2. ASSUME NEW c \in Calls, CallMethod(c)
      PROVE  NothingUnderWay'
  BY <1>2 DEF CallMethod, NothingUnderWay
<1>3. CASE Connect
  BY <1>3 DEF Connect, NothingUnderWay
<1>4. CASE CloseConnection
  BY <1>4 DEF CloseConnection, NothingUnderWay
<1>5. CASE Reconnect
  BY <1>5 DEF Reconnect, NothingUnderWay
<1>6. CASE Read \/ Write
  BY <1>0, <1>6 DEF Read, Write, StateTypes, NothingUnderWay
<1>7. CASE Handle
  <2>1. UNCHANGED <<connected, buffer, serverVars>>
    BY <1>7, HandleTakes
  <2> QED
    BY <2>1 DEF NothingUnderWay
<1>8. CASE ConnectDone
  BY <1>8 DEF ConnectDone, NothingUnderWay
<1>9. CASE SendDone \/ ReceiveDone
  BY <1>0, <1>9 DEF SendDone, ReceiveDone, StateTypes
<1>10. CASE ConnectionLost \/ ServerTakes
  BY <1>0, <1>10 DEF ConnectionLost, ServerTakes, StateTypes
<1>11. CASE ServerAnswers \/ \E s \in ServerCalls : ServerCall(s)
  <2>1. link = "up" /\ UNCHANGED connected
    BY <1>11, Zenon DEF ServerAnswers, ServerCall
  <2> QED
    BY <1>0, <2>1 DEF StateTypes
<1> QED
  BY <1>1, <1>2, <1>3, <1>4, <1>5, <1>6, <1>7, <1>8, <1>9, <1>10, <1>11 DEF Next, Update, Socket

-----------------------------------------------------------------------------
(* What the frames under way are about                                     *)

SomeFailed == \E c \in Failing : call[c] = "done"

(* The id of f was given to the call that f is about, and nobody else      *)
(* waits under it: on the connection it came over, that call still does,   *)
(* or is done.                                                             *)
Ours(f) ==
  /\ f.method = Method[f.message[2]] /\ f.transmit_id \in 1..transmitId[f.method]
  /\ f.transmit_id \in DOMAIN requests[f.method] =>
       requests[f.method][f.transmit_id] = f.message[2]
  /\ connected => call[f.message[2]] = "done" \/ f.transmit_id \in DOMAIN requests[f.method]

Sent(f) ==
  f.stub =>
    /\ f.message[2] \in Calls /\ f.message = <<"request", f.message[2]>>
    /\ f.message[2] \notin OneWay => Ours(f)
    /\ f.failed => SomeFailed

Coming(f) ==
  /\ f.stub => ~f.failed /\ f.message[2] \in ServerCalls
  /\ ~f.stub =>
       /\ f.message[2] \in Calls \ OneWay /\ Ours(f)
       /\ \/ f.message = <<"response", f.message[2]>>
          \/ f.message = <<"request", f.message[2]>> /\ f.failed
       /\ f.failed => f.message[2] \in Failing \/ SomeFailed

AnswerInv ==
  /\ \A f \in Sending : Sent(f)
  /\ \A f \in serving : f.stub /\ f.message[2] \notin OneWay /\ Sent(f)
  /\ \A f \in Arriving : Coming(f)
  /\ proto.failed => SomeFailed
  /\ ~connected => NothingUnderWay
  /\ OwnAnswer

(* A step that leaves the callers of the connection as they are, but for   *)
(* new ones and for those it answers.                                      *)
GoesOn ==
  /\ \A m \in Methods : transmitId[m] \in Nat /\ transmitId'[m] \in Nat /\ transmitId[m] <= transmitId'[m]
  /\ \A m \in Methods : \A i \in 1..transmitId[m] :
       i \in DOMAIN requests'[m] => i \in DOMAIN requests[m] /\ requests'[m][i] = requests[m][i]
  /\ connected' => /\ connected
                   /\ \A m \in Methods : \A i \in DOMAIN requests[m] :
                        i \in DOMAIN requests'[m] \/ call'[requests[m][i]] = "done"
  /\ \A c \in Calls : call[c] = "done" => call'[c] = "done"

LEMMA OursGoesOn ==
  ASSUME GoesOn, NEW f \in Frame, f.message[2] \in Calls, Ours(f)
  PROVE  Ours(f)'
<1>1. PICK c, m, i : c = f.message[2] /\ m = f.method /\ i = f.transmit_id
  OBVIOUS
<1>2. m \in Methods /\ c \in Calls /\ i \in Nat
  BY <1>1, FrameProto
<1>3. /\ m = Method[c] /\ i \in 1..transmitId[m]
      /\ i \in DOMAIN requests[m] => requests[m][i] = c
      /\ connected => call[c] = "done" \/ i \in DOMAIN requests[m]
  BY <1>1 DEF Ours
<1>4. i \in 1..transmitId'[m]
  BY <1>2, <1>3 DEF GoesOn
<1>5. i \in DOMAIN requests'[m] => requests'[m][i] = c
  BY <1>2, <1>3 DEF GoesOn
<1>6. connected' => call'[c] = "done" \/ i \in DOMAIN requests'[m]
  BY <1>2, <1>3 DEF GoesOn
<1> QED
  BY <1>1, <1>3, <1>4, <1>5, <1>6 DEF Ours

LEMMA FailedGoesOn ==
  ASSUME GoesOn, SomeFailed
  PROVE  SomeFailed'
BY SetAssumption DEF GoesOn, SomeFailed

LEMMA SentGoesOn ==
  ASSUME GoesOn, NEW f \in Frame, Sent(f)
  PROVE  Sent(f)'
BY OursGoesOn, FailedGoesOn DEF Sent

LEMMA ComingGoesOn ==
  ASSUME GoesOn, NEW f \in Frame, Coming(f)
  PROVE  Coming(f)'
BY OursGoesOn, FailedGoesOn DEF Coming

LEMMA UnderWayTypes ==
  ASSUME Types
  PROVE  Sending \subseteq Frame /\ Arriving \subseteq Frame /\ serving \subseteq Frame
<1>1. \A s \in Seq(Frame) : Elems(s) \subseteq Frame
  BY ElementOfSeq DEF Elems
<1>2. \A s \in Seq(Byte) : Elems(s) \subseteq Byte
  BY ElementOfSeq DEF Elems
<1> QED
  BY <1>1, <1>2 DEF Types, FlowTypes, Sending, Arriving, Byte

(* Only what is new has to be looked at then.                              *)
LEMMA GoingOn ==
  ASSUME Types, AnswerInv, GoesOn, NEW new, NEW coming, Moves(new, coming),
         \A f \in new : Sent(f)', \A f \in coming : Coming(f)'
  PROVE  /\ \A f \in Sending' : Sent(f)'
         /\ \A f \in serving' : f.stub /\ f.message[2] \notin OneWay /\ Sent(f)'
         /\ \A f \in Arriving' : Coming(f)'
<1>1. Sending \subseteq Frame /\ Arriving \subseteq Frame /\ serving \subseteq Frame
  BY UnderWayTypes
<1>2. \A f \in Sending : Sent(f)'
  BY <1>1, SentGoesOn DEF AnswerInv
<1>3. \A f \in serving : Sent(f)' /\ f.stub /\ f.message[2] \notin OneWay
  BY <1>1, SentGoesOn DEF AnswerInv
<1>4. \A f \in Arriving : Coming(f)'
  BY <1>1, ComingGoesOn DEF AnswerInv
<1> QED
  BY <1>2, <1>3, <1>4 DEF Moves

LEMMA RestGoesOn ==
  ASSUME CallInv, CallersRest, UNCHANGED connected
  PROVE  GoesOn
<1>1. \A m \in Methods : transmitId[m] \in Nat
  BY DEF CallInv, CallTypes
<1> QED
  BY <1>1 DEF CallersRest, GoesOn

LEMMA CallingGoesOn ==
  ASSUME CallInv, NEW c \in Calls, Calling(c), UNCHANGED connected
  PROVE  GoesOn
<1>0. transmitId \in [Methods -> Nat] /\ call \in [Calls -> {"unsent", "waiting", "done", "lost"}]
      /\ call[c] = "unsent"
  BY DEF CallInv, CallTypes, Calling
<1>1. CASE c \in OneWay
  <2>1. call' = [call EXCEPT ![c] = "done"] /\ UNCHANGED <<transmitId, requests>>
    BY <1>1 DEF Calling, SendNotify
  <2>2. \A d \in Calls : call[d] = "done" => call'[d] = "done"
    BY <1>0, <2>1
  <2> QED
    BY <1>0, <2>1, <2>2 DEF GoesOn
<1>2. CASE c \notin OneWay
  <2>1. PICK m : m = Method[c]
    OBVIOUS
  <2>2. PICK n : n = transmitId[m] + 1
    OBVIOUS
  <2>3. /\ m \in Methods /\ n \in Nat \ {0} /\ n \notin DOMAIN requests[m]
        /\ transmitId' = [transmitId EXCEPT ![m] = n]
        /\ call' = [call EXCEPT ![c] = "waiting"]
        /\ \A k \in Methods : k # m => requests'[k] = requests[k]
        /\ DOMAIN requests'[m] = DOMAIN requests[m] \cup {n}
        /\ \A i \in DOMAIN requests[m] : requests'[m][i] = requests[m][i]
    BY <1>2, <2>1, <2>2, RequestRegistered
  <2>4. \A k \in Methods : transmitId[k] \in Nat /\ transmitId'[k] \in Nat /\ transmitId[k] <= transmitId'[k]
    BY <1>0, <2>2, <2>3
  <2>5. \A d \in Calls : call[d] = "done" => call'[d] = "done"
    BY <1>0, <2>3
  <2>6. ASSUME NEW k \in Methods, NEW i \in 1..transmitId[k], i \in DOMAIN requests'[k]
        PROVE  i \in DOMAIN requests[k] /\ requests'[k][i] = requests[k][i]
    <3>1. transmitId[m] \in Nat
      BY <2>3, <2>4
    <3>2. ~(k = m /\ i = n)
      BY <2>2, <2>6, <3>1
    <3> QED
      BY <2>3, <2>6, <3>2
  <2>7. ASSUME NEW k \in Methods, NEW i \in DOMAIN requests[k]
        PROVE  i \in DOMAIN requests'[k]
    BY <2>3
  <2> QED
    BY <2>4, <2>5, <2>6, <2>7 DEF GoesOn
<1> QED
  BY <1>1, <1>2

LEMMA ClearingGoesOn ==
  ASSUME CallInv, Clearing, ~connected'
  PROVE  GoesOn
<1>1. /\ \A m \in Methods : DOMAIN requests'[m] = {}
      /\ \A c \in Calls : call[c] = "done" => call'[c] = "done"
      /\ UNCHANGED transmitId
  BY ClearingKeeps DEF Clearing, ClearRequests
<1>2. \A m \in Methods : transmitId[m] \in Nat
  BY DEF CallInv, CallTypes
<1> QED
  BY <1>1, <1>2 DEF GoesOn

(* The callback that an answer runs is the one that is found under its id. *)
LEMMA AnsweringRuns ==
  ASSUME CallInv, NEW f \in Frame, Answering(f)
  PROVE  /\ proto' = f
         /\ \/ f.transmit_id \notin DOMAIN requests[f.method] /\ CallersRest
            \/ LET c == requests[f.method][f.transmit_id]
               IN /\ f.transmit_id \in DOMAIN requests[f.method] /\ c \in Calls \ OneWay
                  /\ \A d \in Calls : call'[d] = IF d = c THEN "done" ELSE call[d]
                  /\ \A d \in Calls : answer'[d] = IF d = c THEN f.message ELSE answer[d]
                  /\ \A m \in Methods : \A i \in DOMAIN requests[m] :
                       ~(m = f.method /\ i = f.transmit_id) => i \in DOMAIN requests'[m]
                  /\ \A m \in Methods : \A i \in DOMAIN requests'[m] :
                       i \in DOMAIN requests[m] /\ requests'[m][i] = requests[m][i]
<1>0. f.method \in Methods /\ proto' = f
  BY FrameProto DEF Answering, HandleResponse
<1>1. PICK m, n : m = f.method /\ n = f.transmit_id
  OBVIOUS
<1>2. CASE n \notin DOMAIN requests[m]
  BY <1>0, <1>1, <1>2 DEF Answering, HandleResponse, CallersRest
<1>3. CASE n \in DOMAIN requests[m]
  <2>1. PICK c : c = requests[m][n]
    OBVIOUS
  <2>2. PICK R : R = [i \in DOMAIN requests[m] \ {n} |-> requests[m][i]]
    OBVIOUS
  <2>3. /\ requests' = [requests EXCEPT ![m] = R]
        /\ call' = [call EXCEPT ![c] = "done"]
        /\ answer' = [answer EXCEPT ![c] = f.message]
    BY <1>1, <1>3, <2>1, <2>2 DEF Answering, HandleResponse
  <2>4. c \in Calls \ OneWay
    BY <1>0, <1>1, <1>3, <2>1 DEF CallInv, RequestsInv
  <2>5. DOMAIN R = DOMAIN requests[m] \ {n} /\ \A i \in DOMAIN R : R[i] = requests[m][i]
    BY <2>2
  <2>6. \A k \in Methods : requests'[k] = IF k = m THEN R ELSE requests[k]
    BY <1>0, <1>1, <2>3 DEF CallInv, CallTypes
  <2>7. /\ \A d \in Calls : call'[d] = IF d = c THEN "done" ELSE call[d]
        /\ \A d \in Calls : answer'[d] = IF d = c THEN f.message ELSE answer[d]
    BY <2>3, <2>4 DEF CallInv, CallTypes
  <2>8. /\ \A k \in Methods : \A i \in DOMAIN requests[k] :
             ~(k = m /\ i = n) => i \in DOMAIN requests'[k]
        /\ \A k \in Methods : \A i \in DOMAIN requests'[k] :
             i \in DOMAIN requests[k] /\ requests'[k][i] = requests[k][i]
    BY <2>5, <2>6
  <2> QED
    BY <1>0, <1>1, <1>3, <2>1, <2>4, <2>7, <2>8
<1> QED
  BY <1>2, <1>3

LEMMA AnsweringGoesOn ==
  ASSUME CallInv, NEW f \in Frame, Answering(f), UNCHANGED connected
  PROVE  GoesOn
<1>0. UNCHANGED transmitId /\ \A m \in Methods : transmitId[m] \in Nat
  BY DEF CallInv, CallTypes, Answering
<1>1. CASE CallersRest
  BY <1>1, RestGoesOn
<1>2. CASE ~CallersRest
  <2>1. PICK c, k, n :
          /\ k = f.method /\ n = f.transmit_id /\ c = requests[k][n] /\ n \in DOMAIN requests[k]
          /\ \A d \in Calls : call'[d] = IF d = c THEN "done" ELSE call[d]
          /\ \A m \in Methods : \A i \in DOMAIN requests[m] :
               ~(m = k /\ i = n) => i \in DOMAIN requests'[m]
          /\ \A m \in Methods : \A i \in DOMAIN requests'[m] :
               i \in DOMAIN requests[m] /\ requests'[m][i] = requests[m][i]
          /\ c \in Calls
    BY <1>2, AnsweringRuns
  <2>2. \A d \in Calls : call[d] = "done" => call'[d] = "done"
    BY <2>1
  <2>3. \A m \in Methods : \A i \in DOMAIN requests[m] :
          i \in DOMAIN requests'[m] \/ call'[requests[m][i]] = "done"
    BY <2>1
  <2> QED
    BY <1>0, <2>1, <2>2, <2>3 DEF GoesOn
<1> QED
  BY <1>1, <1>2

LEMMA NewRequestOurs ==
  ASSUME CallInv, AnswerInv, NEW c \in Calls, Calling(c), GoesOn, NEW f, NEW i \in Nat,
         IsRequest(f, c, i, proto), c \notin OneWay => i = NextId(Method[c])
  PROVE  Sent(f)' /\ (f.failed => SomeFailed')
<1>1. f.failed => SomeFailed'
  BY FailedGoesOn DEF IsRequest, AnswerInv
<1>2. /\ f.stub = TRUE /\ f.message[2] = c /\ f.message = <<"request", c>>
      /\ f.method = Method[c] /\ f.transmit_id = i
  BY DEF IsRequest
<1>3. ASSUME c \notin OneWay
      PROVE  Ours(f)'
  <2>1. PICK m : m = Method[c]
    OBVIOUS
  <2>2. PICK n : n = transmitId[m] + 1
    OBVIOUS
  <2>3. /\ m \in Methods /\ n \in Nat \ {0}
        /\ transmitId' = [transmitId EXCEPT ![m] = n]
        /\ DOMAIN requests'[m] = DOMAIN requests[m] \cup {n}
        /\ requests'[m][n] = c
    BY <1>3, <2>1, <2>2, RequestRegistered
  <2>4. i = n
    BY <1>3, <2>1, <2>2 DEF NextId
  <2>5. transmitId'[m] = n
    BY <2>3 DEF CallInv, CallTypes
  <2>6. n \in 1..transmitId'[m] /\ n \in DOMAIN requests'[m]
    BY <2>3, <2>5
  <2> QED
    BY <1>2, <2>1, <2>3, <2>4, <2>6 DEF Ours
<1> QED
  BY <1>1, <1>2, <1>3 DEF Sent

(* The server answers what it serves.                                      *)
LEMMA AnswerOurs ==
  ASSUME AnswerInv, NEW g \in serving, g \in Frame, NEW f \in Frame, ~f.stub,
         f.failed <=> (g.failed \/ g.message[2] \in Failing),
         \/ IsAnswer(f, g, f.failed, <<"response", g.message[2]>>)
         \/ f.failed /\ IsAnswer(f, g, TRUE, g.message)
  PROVE  Coming(f)
<1>1. /\ g.message[2] \in Calls /\ g.message[2] \notin OneWay /\ g.message = <<"request", g.message[2]>>
      /\ Ours(g) /\ (g.failed => SomeFailed)
  BY DEF AnswerInv, Sent
<1>2. f.method = g.method /\ f.transmit_id = g.transmit_id /\ f.message[2] = g.message[2]
  BY DEF IsAnswer
<1>3. Ours(f)
  BY <1>1, <1>2 DEF Ours
<1>4. \/ f.message = <<"response", f.message[2]>>
      \/ f.message = <<"request", f.message[2]>> /\ f.failed
  BY <1>1, <1>2 DEF IsAnswer
<1> QED
  BY <1>1, <1>2, <1>3, <1>4 DEF Coming

LEMMA AnswerInvStep ==
  ASSUME TypeInv, AnswerInv, [Next]_vars
  PROVE  AnswerInv'
<1>0. Types /\ CallInv
  BY DEF TypeInv, Types, CallInv
<1>q. ~connected' => NothingUnderWay'
  BY <1>0, QuietStep DEF AnswerInv
<1>1. CASE FramesMove
  <2>1. CallersRest /\ UNCHANGED <<connected, proto>> /\ Moves({}, {})
    BY <1>1 DEF FramesMove
  <2>2. GoesOn
    BY <1>0, <2>1, RestGoesOn
  <2>3. /\ \A f \in Sending' : Sent(f)'
        /\ \A f \in serving' : f.stub /\ f.message[2] \notin OneWay /\ Sent(f)'
        /\ \A f \in Arriving' : Coming(f)'
    BY <1>0, <2>1, <2>2, GoingOn
  <2>4. OwnAnswer' /\ (proto'.failed => SomeFailed')
    BY <2>1 DEF CallersRest, AnswerInv, OwnAnswer, SomeFailed
  <2> QED
    BY <1>q, <2>3, <2>4 DEF AnswerInv
<1>2. CASE FramesClosed
  <2>1. Clearing /\ UNCHANGED proto /\ Moves({}, {}) /\ ~connected'
    BY <1>2 DEF FramesClosed
  <2>2. GoesOn
    BY <1>0, <2>1, ClearingGoesOn
  <2>3. /\ \A f \in Sending' : Sent(f)'
        /\ \A f \in serving' : f.stub /\ f.message[2] \notin OneWay /\ Sent(f)'
        /\ \A f \in Arriving' : Coming(f)'
    BY <1>0, <2>1, <2>2, GoingOn
  <2>4. OwnAnswer' /\ (proto'.failed => SomeFailed')
    BY <2>1, SetAssumption DEF Clearing, ClearRequests, AnswerInv, OwnAnswer, SomeFailed
  <2> QED
    BY <1>q, <2>3, <2>4 DEF AnswerInv
<1>3. CASE FramesOpened
  <2>1. /\ Clearing /\ UNCHANGED <<proto, serving>> /\ connected'
        /\ Sending' = {} /\ Arriving' = {} /\ serving' = {}
    BY <1>3, ElemsEmpty DEF FramesOpened, AnswerInv, NothingUnderWay
  <2>2. OwnAnswer' /\ (proto'.failed => SomeFailed')
    BY <2>1, SetAssumption DEF Clearing, ClearRequests, AnswerInv, OwnAnswer, SomeFailed
  <2> QED
    BY <2>1, <2>2 DEF AnswerInv
<1>4. ASSUME NEW c \in Calls, FrameCalls(c)
      PROVE  AnswerInv'
  <2>1. PICK f : f = proto'
    OBVIOUS
  <2>2. PICK i \in Nat : IsRequest(f, c, i, proto) /\ (c \notin OneWay => i = NextId(Method[c]))
    BY <1>4, <2>1 DEF FrameCalls
  <2>3. Calling(c) /\ UNCHANGED connected /\ Moves({f}, {})
    BY <1>4, <2>1 DEF FrameCalls, Moves
  <2>4. GoesOn
    BY <1>0, <2>3, CallingGoesOn
  <2>5. Sent(f)' /\ (f.failed => SomeFailed')
    BY <1>0, <2>2, <2>3, <2>4, NewRequestOurs
  <2>6. /\ \A h \in Sending' : Sent(h)'
        /\ \A h \in serving' : h.stub /\ h.message[2] \notin OneWay /\ Sent(h)'
        /\ \A h \in Arriving' : Coming(h)'
    BY <1>0, <2>3, <2>4, <2>5, GoingOn
  <2>7. OwnAnswer'
    <3>1. call' = [call EXCEPT ![c] = IF c \in OneWay THEN "done" ELSE "waiting"] /\ UNCHANGED answer
      BY <2>3 DEF Calling, SendRequest, SendNotify
    <3>2. \A d \in Calls \ OneWay : call'[d] = "done" => call[d] = "done"
      BY <1>0, <3>1 DEF CallInv, CallTypes
    <3>3. \A d \in Failing : call[d] = "done" => call'[d] = "done"
      BY <2>4, SetAssumption DEF GoesOn
    <3> QED
      BY <3>1, <3>2, <3>3 DEF AnswerInv, OwnAnswer
  <2> QED
    BY <1>q, <2>1, <2>5, <2>6, <2>7 DEF AnswerInv
<1>5. ASSUME NEW f \in Frame, FrameServed(f)
      PROVE  AnswerInv'
  <2>1. /\ f \in Arriving /\ f.stub /\ CallersRest /\ UNCHANGED connected
    BY <1>5 DEF FrameServed, HandlesRequest, CallersRest
  <2>2. ~f.failed
    BY <2>1 DEF AnswerInv, Coming
  <2>3. GoesOn
    BY <1>0, <2>1, RestGoesOn
  <2>4. PICK g : g = proto'
    OBVIOUS
  <2>5. ~g.failed /\ (Moves({}, {}) \/ (g.stub = FALSE /\ Moves({g}, {})))
    BY <1>5, <2>2, <2>4 DEF FrameServed, IsAnswer, Moves
  <2>6. g.stub = FALSE => Sent(g)'
    BY DEF Sent
  <2>7. /\ \A h \in Sending' : Sent(h)'
        /\ \A h \in serving' : h.stub /\ h.message[2] \notin OneWay /\ Sent(h)'
        /\ \A h \in Arriving' : Coming(h)'
    <3>1. CASE Moves({}, {})
      BY <1>0, <2>3, <3>1, GoingOn
    <3>2. CASE g.stub = FALSE /\ Moves({g}, {})
      <4>1. \A h \in {g} : Sent(h)'
        BY <2>6, <3>2
      <4> QED
        BY <1>0, <2>3, <3>2, <4>1, GoingOn
    <3> QED
      BY <2>5, <3>1, <3>2
  <2>8. OwnAnswer'
    BY <2>1 DEF CallersRest, AnswerInv, OwnAnswer
  <2> QED
    BY <1>q, <2>4, <2>5, <2>7, <2>8 DEF AnswerInv
<1>6. ASSUME NEW f \in Frame, FrameAnswers(f)
      PROVE  AnswerInv'
  <2>1. /\ f \in Arriving /\ Answering(f) /\ connected /\ UNCHANGED connected /\ Moves({}, {})
        /\ ~f.stub
    BY <1>6 DEF FrameAnswers, Answering
  <2>2. GoesOn
    BY <1>0, <2>1, AnsweringGoesOn
  <2>3. /\ \A h \in Sending' : Sent(h)'
        /\ \A h \in serving' : h.stub /\ h.message[2] \notin OneWay /\ Sent(h)'
        /\ \A h \in Arriving' : Coming(h)'
    BY <1>0, <2>1, <2>2, GoingOn
  <2>4. PICK c : c = f.message[2]
    OBVIOUS
  <2>5. /\ c \in Calls \ OneWay /\ Ours(f)
        /\ f.message = <<"response", c>> \/ (f.message = <<"request", c>> /\ f.failed)
        /\ f.failed => c \in Failing \/ SomeFailed
    BY <2>1, <2>4 DEF AnswerInv, Coming
  <2>6. \/ f.transmit_id \notin DOMAIN requests[f.method] /\ CallersRest /\ call[c] = "done"
        \/ /\ call'[c] = "done"
           /\ \A d \in Calls : call'[d] = IF d = c THEN "done" ELSE call[d]
           /\ \A d \in Calls : answer'[d] = IF d = c THEN f.message ELSE answer[d]
    BY <1>0, <2>1, <2>4, <2>5, AnsweringRuns DEF Ours
  <2>7. call'[c] = "done"
    BY <2>6 DEF CallersRest
  <2>8. f.failed => SomeFailed'
    BY <2>2, <2>5, <2>7, FailedGoesOn DEF SomeFailed
  <2>9. proto' = f
    BY <1>0, <2>1, AnsweringRuns
  <2>10. OwnAnswer'
    <3>1. ASSUME NEW d \in Calls \ OneWay, call'[d] = "done"
          PROVE  answer'[d] = <<"response", d>> \/ (answer'[d] = <<"request", d>> /\ SomeFailed')
      <4>1. CASE call[d] = "done" /\ answer'[d] = answer[d]
        <5>1. answer[d] = <<"response", d>> \/ (answer[d] = <<"request", d>> /\ SomeFailed)
          BY <4>1 DEF AnswerInv, OwnAnswer, SomeFailed
        <5> QED
          BY <2>2, <4>1, <5>1, FailedGoesOn
      <4>2. CASE d = c /\ answer'[d] = f.message
        BY <2>5, <2>8, <4>2
      <4>3. \/ call[d] = "done" /\ answer'[d] = answer[d]
            \/ d = c /\ answer'[d] = f.message
        BY <2>6, <3>1 DEF CallersRest
      <4> QED
        BY <4>1, <4>2, <4>3
    <3> QED
      BY <3>1 DEF OwnAnswer, SomeFailed
  <2> QED
    BY <1>q, <2>3, <2>8, <2>9, <2>10 DEF AnswerInv
<1>7. ASSUME NEW f \in Frame, FrameComes(f)
      PROVE  AnswerInv'
  <2>1. CallersRest /\ UNCHANGED <<connected, proto>> /\ Moves({}, {f})
    BY <1>7 DEF FrameComes
  <2>2. GoesOn
    BY <1>0, <2>1, RestGoesOn
  <2>3. Coming(f)
    <3>1. CASE f.stub
      BY <1>7, <3>1 DEF FrameComes, Coming
    <3>2. CASE ~f.stub
      <4>1. PICK g \in serving :
               /\ f.failed <=> (g.failed \/ g.message[2] \in Failing)
               /\ \/ IsAnswer(f, g, f.failed, <<"response", g.message[2]>>)
                  \/ f.failed /\ IsAnswer(f, g, TRUE, g.message)
        BY <1>7, <3>2 DEF FrameComes
      <4>2. g \in Frame
        BY <1>0, UnderWayTypes
      <4> QED
        BY <3>2, <4>1, <4>2, AnswerOurs
    <3> QED
      BY <3>1, <3>2
  <2>4. Coming(f)'
    BY <2>2, <2>3, ComingGoesOn
  <2>5. /\ \A h \in Sending' : Sent(h)'
        /\ \A h \in serving' : h.stub /\ h.message[2] \notin OneWay /\ Sent(h)'
        /\ \A h \in Arriving' : Coming(h)'
    BY <1>0, <2>1, <2>2, <2>4, GoingOn
  <2>6. OwnAnswer' /\ (proto'.failed => SomeFailed')
    BY <2>1 DEF CallersRest, AnswerInv, OwnAnswer, SomeFailed
  <2> QED
    BY <1>q, <2>5, <2>6 DEF AnswerInv
<1> QED
  BY <1>0, <1>1, <1>2, <1>3, <1>4, <1>5, <1>6, <1>7, FramesStep

(* Whatever connections come and go and in whatever order the server       *)
(* answers, handleResponseFunc_ runs the callback of the call whose        *)
(* request was answered, and gives it the response, or, once a service has *)
(* failed, its own request.                                                *)
THEOREM OwnAnswers == Spec => []OwnAnswer
<1>1. Init => AnswerInv
  <2> SUFFICES ASSUME Init PROVE AnswerInv
    OBVIOUS
  <2>1. /\ writeBuffer = <<>> /\ writeBufferPending = <<>> /\ toServer = <<>> /\ serving = {}
        /\ readBuffer = <<>> /\ buffer = <<>> /\ toClient = <<>>
        /\ call = [c \in Calls |-> "unsent"]
    BY Zenon DEF Init
  <2>2. proto.failed = FALSE
    <3>1. proto = ControllerProto("", 0, FALSE, FALSE, <<>>)
      BY Zenon DEF Init
    <3> QED
      BY <3>1 DEF ControllerProto
  <2>3. Sending = {} /\ Arriving = {} /\ NothingUnderWay
    BY <2>1, ElemsEmpty DEF Sending, Arriving, NothingUnderWay
  <2>4. OwnAnswer
    BY <2>1 DEF OwnAnswer
  <2> QED
    BY <2>1, <2>2, <2>3, <2>4 DEF AnswerInv
<1>2. TypeInv /\ AnswerInv /\ [Next]_vars => AnswerInv'
  BY AnswerInvStep
<1>3. AnswerInv => OwnAnswer
  BY DEF AnswerInv
<1> QED
  BY <1>1, <1>2, <1>3, TypeInvCorrect, PTL DEF Spec

-----------------------------------------------------------------------------
(* The bytes from the server                                               *)

(* A byte stands at its place in its frame, and so do those around it, as  *)
(* far as they have come.                                                  *)
Aligned(s) ==
  \A p \in 1..Len(s) :
    /\ s[p][2] <= p
    /\ \A k \in 1..Size : p - s[p][2] + k <= Len(s) => s[p - s[p][2] + k] = <<s[p][1], k>>

Complete(s) == \A p \in 1..Len(s) : p - s[p][2] + Size <= Len(s)

LEMMA ByteFacts ==
  ASSUME NEW s \in Seq(Byte), NEW p \in 1..Len(s)
  PROVE  s[p][1] \in Frame /\ s[p][2] \in 1..Size
<1>1. s[p] \in Byte
  BY ElementOfSeq
<1> QED
  BY <1>1 DEF Byte

LEMMA AlignedEmpty == Aligned(<<>>) /\ Complete(<<>>)
BY EmptySeq DEF Aligned, Complete

LEMMA AlignedPrefix ==
  ASSUME NEW s \in Seq(Byte), NEW t \in Seq(Byte), Aligned(s \o t)
  PROVE  Aligned(s)
<1>1. Len(s) \in Nat /\ Len(t) \in Nat /\ Size \in Nat \ {0}
  BY LengthNat, SizeFacts
<1>2. PICK u : u = s \o t
  OBVIOUS
<1>3. Len(u) = Len(s) + Len(t) /\ \A i \in 1..Len(s) : u[i] = s[i]
  BY <1>1, <1>2, ConcatProperties
<1>4. ASSUME NEW p \in 1..Len(s)
      PROVE  /\ s[p][2] <= p
             /\ \A k \in 1..Size : p - s[p][2] + k <= Len(s) => s[p - s[p][2] + k] = <<s[p][1], k>>
  <2>1. p \in 1..Len(u) /\ u[p] = s[p]
    BY <1>1, <1>3
  <2>2. PICK q, f : q = s[p][2] /\ f = s[p][1]
    OBVIOUS
  <2>3. q \in 1..Size
    BY <2>2, ByteFacts
  <2>4. /\ q <= p
        /\ \A k \in 1..Size : p - q + k <= Len(u) => u[p - q + k] = <<f, k>>
    BY <1>2, <2>1, <2>2 DEF Aligned
  <2>5. ASSUME NEW k \in 1..Size, p - q + k <= Len(s)
        PROVE  s[p - q + k] = <<f, k>>
    <3>1. p - q + k \in 1..Len(s) /\ p - q + k <= Len(u)
      BY <1>1, <1>3, <2>3, <2>4, <2>5
    <3> QED
      BY <1>3, <2>4, <3>1
  <2> QED
    BY <2>2, <2>4, <2>5
<1> QED
  BY <1>4 DEF Aligned

LEMMA AlignedAppend ==
  ASSUME NEW s \in Seq(Byte), Aligned(s), Complete(s), NEW f \in Frame
  PROVE  Aligned(s \o Bytes(f)) /\ Complete(s \o Bytes(f))
<1>1. Len(s) \in Nat /\ Size \in Nat \ {0}
  BY LengthNat, SizeFacts
<1>2. PICK u, t : t = Bytes(f) /\ u = s \o t
  OBVIOUS
<1>3. t \in Seq(Byte) /\ Len(t) = Size /\ \A k \in 1..Size : t[k] = <<f, k>>
  BY <1>2, BytesFacts
<1>4. /\ Len(u) = Len(s) + Size
      /\ \A i \in 1..Len(s) + Size : u[i] = IF i <= Len(s) THEN s[i] ELSE t[i - Len(s)]
  BY <1>2, <1>3, ConcatProperties
<1>5. ASSUME NEW p \in 1..Len(u)
      PROVE  /\ u[p][2] <= p /\ p - u[p][2] + Size <= Len(u)
             /\ \A k \in 1..Size : p - u[p][2] + k <= Len(u) => u[p - u[p][2] + k] = <<u[p][1], k>>
  <2>1. CASE p <= Len(s)
    <3>1. p \in 1..Len(s) /\ u[p] = s[p]
      BY <1>1, <1>4, <2>1
    <3>2. PICK q, g : q = s[p][2] /\ g = s[p][1]
      OBVIOUS
    <3>3. q \in 1..Size
      BY <3>1, <3>2, ByteFacts
    <3>4. /\ q <= p /\ p - q + Size <= Len(s)
          /\ \A k \in 1..Size : p - q + k <= Len(s) => s[p - q + k] = <<g, k>>
      BY <3>1, <3>2 DEF Aligned, Complete
    <3>5. ASSUME NEW k \in 1..Size
          PROVE  u[p - q + k] = <<g, k>>
      <4>1. p - q + k \in 1..Len(s) + Size /\ p - q + k <= Len(s)
        BY <1>1, <3>1, <3>3, <3>4
      <4> QED
        BY <1>4, <3>4, <4>1
    <3>6. p - q + Size <= Len(u)
      BY <1>1, <1>4, <3>1, <3>3, <3>4
    <3> QED
      BY <3>1, <3>2, <3>4, <3>5, <3>6
  <2>2. CASE ~(p <= Len(s))
    <3>1. PICK q : q = p - Len(s)
      OBVIOUS
    <3>2. q \in 1..Size /\ p \in 1..Len(s) + Size /\ p = Len(s) + q
      BY <1>1, <1>4, <2>2, <3>1
    <3>3. u[p] = <<f, q>>
      BY <1>3, <1>4, <2>2, <3>1, <3>2
    <3>4. u[p][2] = q /\ u[p][1] = f
      BY <3>3
    <3>5. ASSUME NEW k \in 1..Size
          PROVE  u[p - q + k] = <<f, k>>
      <4>1. p - q + k = Len(s) + k /\ Len(s) + k \in 1..Len(s) + Size
            /\ ~(Len(s) + k <= Len(s)) /\ Len(s) + k - Len(s) = k
        BY <1>1, <3>2
      <4> QED
        BY <1>3, <1>4, <4>1
    <3>6. q <= p /\ p - q + Size <= Len(u)
      BY <1>1, <1>4, <3>2
    <3> QED
      BY <3>4, <3>5, <3>6
  <2> QED
    BY <2>1, <2>2
<1> QED
  BY <1>2, <1>5 DEF Aligned, Complete

LEMMA DropBytes ==
  ASSUME NEW s \in Seq(Byte), Len(s) >= Size, NEW a, a = SubSeq(s, Size + 1, Len(s))
  PROVE  /\ a \in Seq(Byte) /\ Len(a) = Len(s) - Size
         /\ \A i \in 1..Len(s) - Size : a[i] = s[Size + i]
<1>0. Len(s) \in Nat /\ Size \in Nat \ {0}
  BY LengthNat, SizeFacts
<1>1. \A i \in 1..Len(s) : s[i] \in Byte
  BY ElementOfSeq
<1>2. Size + 1 \in Int /\ Len(s) \in Int /\ \A i \in Size + 1..Len(s) : s[i] \in Byte
  BY <1>0, <1>1
<1>3. /\ a \in Seq(Byte)
      /\ Len(a) = IF Size + 1 <= Len(s) THEN Len(s) - (Size + 1) + 1 ELSE 0
      /\ \A i \in 1..Len(s) - (Size + 1) + 1 : a[i] = s[Size + 1 + i - 1]
  BY <1>2, SubSeqProperties
<1>4. Len(a) = Len(s) - Size
  BY <1>0, <1>3
<1>5. ASSUME NEW i \in 1..Len(s) - Size
      PROVE  a[i] = s[Size + i]
  <2>1. i \in 1..Len(s) - (Size + 1) + 1 /\ Size + 1 + i - 1 = Size + i
    BY <1>0
  <2> QED
    BY <1>3, <2>1
<1> QED
  BY <1>3, <1>4, <1>5

(* The first frame, and what is left when it is taken.                     *)
LEMMA AlignedTake ==
  ASSUME NEW s \in Seq(Byte), Aligned(s), Len(s) >= Size
  PROVE  /\ \A k \in 1..Size : s[k] = <<s[1][1], k>>
         /\ Aligned(SubSeq(s, Size + 1, Len(s)))
         /\ Complete(s) => Complete(SubSeq(s, Size + 1, Len(s)))
<1>1. Len(s) \in Nat /\ Size \in Nat \ {0}
  BY LengthNat, SizeFacts
<1>2. PICK u : u = SubSeq(s, Size + 1, Len(s))
  OBVIOUS
<1>3. u \in Seq(Byte) /\ Len(u) = Len(s) - Size /\ \A i \in 1..Len(s) - Size : u[i] = s[Size + i]
  BY <1>2, DropBytes
<1>4. \A k \in 1..Size : s[k] = <<s[1][1], k>>
  <2>1. PICK q, f : q = s[1][2] /\ f = s[1][1]
    OBVIOUS
  <2>2. 1 \in 1..Len(s)
    BY <1>1
  <2>3. /\ q \in 1..Size /\ q <= 1
        /\ \A k \in 1..Size : 1 - q + k <= Len(s) => s[1 - q + k] = <<f, k>>
    BY <2>1, <2>2, ByteFacts DEF Aligned
  <2>4. ASSUME NEW k \in 1..Size
        PROVE  s[k] = <<f, k>>
    <3>1. 1 - q + k = k /\ k <= Len(s)
      BY <1>1, <2>3
    <3> QED
      BY <2>3, <3>1
  <2> QED
    BY <2>1, <2>4
<1>5. ASSUME NEW p \in 1..Len(u)
      PROVE  /\ u[p][2] <= p
             /\ \A k \in 1..Size : p - u[p][2] + k <= Len(u) => u[p - u[p][2] + k] = <<u[p][1], k>>
             /\ Complete(s) => p - u[p][2] + Size <= Len(u)
  <2>1. Size + p \in 1..Len(s) /\ u[p] = s[Size + p]
    BY <1>1, <1>3
  <2>2. PICK q, f : q = u[p][2] /\ f = u[p][1]
    OBVIOUS
  <2>3. q \in 1..Size
    BY <2>1, <2>2, ByteFacts
  <2>r. PICK r : r = Size + p
    OBVIOUS
  <2>4. /\ \A k \in 1..Size : r - q + k <= Len(s) => s[r - q + k] = <<f, k>>
        /\ Complete(s) => r - q + Size <= Len(s)
    <3>1. r \in 1..Len(s) /\ s[r][1] = f /\ s[r][2] = q
      BY <2>1, <2>2, <2>r
    <3> QED
      BY <3>1, Zenon DEF Aligned, Complete
  <2>5. q <= p
    <3> SUFFICES ASSUME ~(q <= p) PROVE FALSE
      OBVIOUS
    <3>1. q - p \in 1..Size /\ r - q + (q - p) = Size /\ Size \in 1..Size
      BY <1>1, <2>3, <2>r
    <3>2. s[Size] = <<f, q - p>>
      BY <2>4, <3>1
    <3>3. s[Size][2] = Size /\ s[Size][2] = q - p
      BY <1>4, <3>1, <3>2
    <3> QED
      BY <1>1, <2>3, <3>3
  <2>6. ASSUME NEW k \in 1..Size, p - q + k <= Len(u)
        PROVE  u[p - q + k] = <<f, k>>
    <3>1. /\ r - q + k <= Len(s) /\ p - q + k \in 1..Len(s) - Size
          /\ Size + (p - q + k) = r - q + k
      BY <1>1, <1>3, <2>3, <2>5, <2>6, <2>r
    <3> QED
      BY <1>3, <2>4, <3>1
  <2>7. Complete(s) => p - q + Size <= Len(u)
    BY <1>1, <1>3, <2>3, <2>4, <2>r
  <2> QED
    BY <2>2, <2>5, <2>6, <2>7
<1> QED
  BY <1>2, <1>4, <1>5 DEF Aligned, Complete

(* What has come and was not taken yet.                                    *)
Incoming == readBuffer \o buffer \o toClient

WholeInv ==
  /\ Aligned(Incoming)
  /\ link = "up" => Complete(Incoming)
  /\ asyncRead # "done" => buffer = <<>>
  /\ ~connected => NothingUnderWay
  /\ ~garbled

BytesStay == Incoming' = Incoming /\ (link' = "up" => link = "up") /\ UNCHANGED garbled

BytesCut == (\E t \in Seq(Byte) : Incoming = Incoming' \o t) /\ link' # "up" /\ UNCHANGED garbled

BytesCome == (\E f \in Frame : Incoming' = Incoming \o Bytes(f)) /\ link = "up" /\ UNCHANGED garbled

BytesTaken ==
  /\ Len(Incoming) >= Size /\ Incoming' = SubSeq(Incoming, Size + 1, Len(Incoming))
  /\ (\A k \in 1..Size : Incoming[k] = <<Incoming[1][1], k>>) => UNCHANGED garbled
  /\ UNCHANGED link

BytesGone == Incoming' = <<>> /\ UNCHANGED garbled

Associate(s, t, u) == (s \o t) \o u = s \o (t \o u)

LEMMA BytesAssociate ==
  ASSUME NEW s \in Seq(Byte), NEW t \in Seq(Byte), NEW u \in Seq(Byte)
  PROVE  Associate(s, t, u)
BY ConcatAssociative DEF Associate

LEMMA IncomingBytes ==
  ASSUME Types
  PROVE  /\ Incoming \in Seq(Byte) /\ Incoming = readBuffer \o (buffer \o toClient)
         /\ readBuffer \in Seq(Byte) /\ buffer \in Seq(Byte) /\ toClient \in Seq(Byte)
         /\ buffer \o toClient \in Seq(Byte)
<1>1. readBuffer \in Seq(Byte) /\ buffer \in Seq(Byte) /\ toClient \in Seq(Byte)
  BY DEF Types, FlowTypes
<1>2. readBuffer \o buffer \in Seq(Byte) /\ buffer \o toClient \in Seq(Byte)
  BY <1>1, ConcatProperties
<1>3. Incoming \in Seq(Byte)
  BY <1>1, <1>2, ConcatProperties DEF Incoming
<1>4. Associate(readBuffer, buffer, toClient)
  BY <1>1, BytesAssociate
<1>5. Incoming = readBuffer \o (buffer \o toClient)
  BY <1>4, Zenon DEF Associate, Incoming
<1> QED
  BY <1>1, <1>2, <1>3, <1>5

(* Taking the first bytes of s from u, which is s \o t.                    *)
FirstTaken(s, t, u) ==
  /\ Len(u) >= Size
  /\ SubSeq(s, Size + 1, Len(s)) \o t = SubSeq(u, Size + 1, Len(u))
  /\ SubSeq(s, Size + 1, Len(s)) \in Seq(Byte)
  /\ u[1] = s[1]
  /\ (\A k \in 1..Size : u[k] = <<s[1][1], k>>) => SubSeq(s, 1, Size) = Bytes(s[1][1])

LEMMA TakeConcat ==
  ASSUME NEW s \in Seq(Byte), NEW t \in Seq(Byte), Len(s) >= Size, NEW u, u = s \o t
  PROVE  FirstTaken(s, t, u)
<1>1. Len(s) \in Nat /\ Len(t) \in Nat /\ Size \in Nat \ {0}
  BY LengthNat, SizeFacts
<1>3. /\ u \in Seq(Byte) /\ Len(u) = Len(s) + Len(t)
      /\ \A i \in 1..Len(s) + Len(t) : u[i] = IF i <= Len(s) THEN s[i] ELSE t[i - Len(s)]
  BY ConcatProperties
<1>2. Len(u) >= Size
  BY <1>1, <1>3
<1>4. PICK a, b : a = SubSeq(s, Size + 1, Len(s)) /\ b = SubSeq(u, Size + 1, Len(u))
  OBVIOUS
<1>5. /\ a \in Seq(Byte) /\ Len(a) = Len(s) - Size
      /\ \A i \in 1..Len(s) - Size : a[i] = s[Size + i]
  BY <1>4, DropBytes
<1>6. /\ b \in Seq(Byte) /\ Len(b) = Len(u) - Size
      /\ \A i \in 1..Len(u) - Size : b[i] = u[Size + i]
  BY <1>2, <1>3, <1>4, DropBytes
<1>7. a \o t = b
  <2>1. PICK v : v = a \o t
    OBVIOUS
  <2>2. /\ v \in Seq(Byte) /\ Len(v) = Len(a) + Len(t)
        /\ \A i \in 1..Len(a) + Len(t) : v[i] = IF i <= Len(a) THEN a[i] ELSE t[i - Len(a)]
    BY <1>5, <2>1, ConcatProperties
  <2>3. Len(v) = Len(b)
    BY <1>1, <1>3, <1>5, <1>6, <2>2
  <2>4. ASSUME NEW i \in 1..Len(v)
        PROVE  v[i] = b[i]
    <3>1. i \in 1..Len(a) + Len(t) /\ i \in 1..Len(u) - Size
      BY <1>6, <2>2, <2>3
    <3>2. PICK j : j = Size + i
      OBVIOUS
    <3>3. j \in 1..Len(s) + Len(t) /\ b[i] = u[j]
      BY <1>1, <1>3, <1>6, <3>1, <3>2
    <3>4. CASE i <= Len(a)
      <4>1. i \in 1..Len(s) - Size /\ j <= Len(s)
        BY <1>1, <1>5, <3>1, <3>2, <3>4
      <4> QED
        BY <1>3, <1>5, <2>2, <3>1, <3>2, <3>3, <3>4, <4>1
    <3>5. CASE ~(i <= Len(a))
      <4>1. ~(j <= Len(s)) /\ j - Len(s) = i - Len(a)
        BY <1>1, <1>5, <3>1, <3>2, <3>5
      <4> QED
        BY <1>3, <2>2, <3>1, <3>3, <3>5, <4>1
    <3> QED
      BY <3>4, <3>5
  <2> QED
    BY <1>6, <2>1, <2>2, <2>3, <2>4, SeqEqual
<1>8. Len(u) >= Size /\ u[1] = s[1]
  BY <1>1, <1>3
<1>9. ASSUME \A k \in 1..Size : u[k] = <<s[1][1], k>>
      PROVE  SubSeq(s, 1, Size) = Bytes(s[1][1])
  <2>1. PICK f : f = s[1][1]
    OBVIOUS
  <2>2. f \in Frame
    BY <1>1, <2>1, ByteFacts
  <2>3. PICK c, d : c = SubSeq(s, 1, Size) /\ d = Bytes(f)
    OBVIOUS
  <2>4. d \in Seq(Byte) /\ Len(d) = Size /\ \A k \in 1..Size : d[k] = <<f, k>>
    BY <2>2, <2>3, BytesFacts
  <2>5. /\ c \in Seq(Byte) /\ Len(c) = Size
        /\ \A k \in 1..Size : c[k] = s[k]
    <3>1. 1 \in Int /\ Size \in Int /\ \A i \in 1..Size : s[i] \in Byte
      BY <1>1, ElementOfSeq
    <3>2. /\ c \in Seq(Byte) /\ Len(c) = IF 1 <= Size THEN Size - 1 + 1 ELSE 0
          /\ \A i \in 1..Size - 1 + 1 : c[i] = s[1 + i - 1]
      BY <2>3, <3>1, SubSeqProperties
    <3> QED
      BY <1>1, <3>2
  <2>6. \A k \in 1..Size : c[k] = d[k]
    <3> TAKE k \in 1..Size
    <3>1. k \in 1..Len(s) + Len(t) /\ k <= Len(s)
      BY <1>1
    <3>2. u[k] = s[k]
      BY <1>3, <3>1
    <3>3. u[k] = <<f, k>>
      BY <1>9, <2>1
    <3> QED
      BY <2>4, <2>5, <3>2, <3>3
  <2> QED
    BY <2>1, <2>3, <2>4, <2>5, <2>6, SeqEqual
<1> QED
  BY <1>4, <1>5, <1>7, <1>8, <1>9 DEF FirstTaken

Splits(s, n) == SubSeq(s, 1, n) \o SubSeq(s, n + 1, Len(s)) = s

LEMMA BytesSplit ==
  ASSUME NEW s \in Seq(Byte), NEW n \in Nat, n <= Len(s)
  PROVE  Splits(s, n)
<1>1. Len(s) \in Nat
  BY LengthNat
<1>2. 1 \in 1..Len(s) + 1 /\ n \in 1 - 1..Len(s) /\ Len(s) \in n..Len(s)
  BY <1>1
<1>3. SubSeq(s, 1, n) \o SubSeq(s, n + 1, Len(s)) = SubSeq(s, 1, Len(s))
  BY <1>2, ConcatAdjacentSubSeq
<1> QED
  BY <1>3, SubSeqFull DEF Splits

LEMMA IncomingStep ==
  ASSUME Types, WholeInv, [Next]_vars
  PROVE  BytesStay \/ BytesCut \/ BytesCome \/ BytesTaken \/ BytesGone
<1> USE DEF connectVars, writeVars, readVars, callVars, serverVars
<1>0. /\ asyncRead # "done" => buffer = <<>>
      /\ ~connected => buffer = <<>> /\ toClient = <<>>
      /\ Incoming \in Seq(Byte) /\ Incoming = readBuffer \o (buffer \o toClient)
      /\ readBuffer \in Seq(Byte) /\ buffer \in Seq(Byte) /\ toClient \in Seq(Byte)
      /\ buffer \o toClient \in Seq(Byte)
  BY IncomingBytes DEF WholeInv, NothingUnderWay
<1>e. /\ \A s \in Seq(Byte) : s \o <<>> = s /\ <<>> \o s = s
      /\ <<>> \in Seq(Byte)
  BY ConcatEmptySeq, EmptySeq
<1>s. StateTypes
  BY DEF Types
<1>1. CASE UNCHANGED vars
  BY <1>1 DEF vars, BytesStay, Incoming
<1>2. ASSUME NEW c \in Calls, CallMethod(c)
      PROVE  BytesStay
  BY <1>2 DEF CallMethod, BytesStay, Incoming
<1>3. CASE Connect \/ ConnectDone \/ SendDone
  BY <1>3 DEF Connect, ConnectDone, SendDone, BytesStay, Incoming
<1>4. CASE CloseConnection
  <2>1. readBuffer' = readBuffer /\ buffer' = <<>> /\ toClient' = <<>> /\ link' = "none" /\ UNCHANGED garbled
    BY <1>4 DEF CloseConnection
  <2>2. Incoming' = readBuffer
    BY <1>e, <1>0, <2>1 DEF Incoming
  <2> QED
    BY <1>0, <2>1, <2>2 DEF BytesCut
<1>5. CASE Reconnect
  <2>1. CASE connected'
    <3>1. readBuffer' = <<>> /\ UNCHANGED <<buffer, toClient, garbled>> /\ ~connected
      BY <1>5, <2>1 DEF Reconnect, ResetBuffers
    <3> QED
      BY <1>0, <1>e, <3>1 DEF BytesGone, Incoming
  <2>2. CASE ~connected'
    BY <1>5, <2>2 DEF Reconnect, BytesStay, Incoming
  <2> QED
    BY <2>1, <2>2
<1>6. CASE Read
  <2>1. UNCHANGED <<link, garbled, toClient>>
    BY <1>6 DEF Read
  <2>2. \/ UNCHANGED <<readBuffer, buffer>>
        \/ readBuffer' = readBuffer \o buffer /\ buffer' = <<>>
    BY <1>0, <1>6, <1>e DEF Read
  <2>3. Incoming' = Incoming
    <3>1. CASE UNCHANGED <<readBuffer, buffer>>
      BY <2>1, <3>1 DEF Incoming
    <3>2. CASE readBuffer' = readBuffer \o buffer /\ buffer' = <<>>
      <4>1. readBuffer \o buffer \in Seq(Byte)
        BY <1>0, ConcatProperties
      <4> QED
        BY <1>e, <2>1, <3>2, <4>1 DEF Incoming
    <3> QED
      BY <2>2, <3>1, <3>2
  <2> QED
    BY <2>1, <2>3 DEF BytesStay
<1>7. CASE Handle
  <2>1. UNCHANGED <<link, buffer, toClient>>
    BY <1>7, HandleTakes
  <2>2. CASE UNCHANGED <<readBuffer, garbled>>
    BY <2>1, <2>2 DEF BytesStay, Incoming
  <2>3. ASSUME NEW f \in Frame, Takes(f)
        PROVE  BytesTaken
    <3>1. PICK t, u : t = buffer \o toClient /\ u = readBuffer \o t
      OBVIOUS
    <3>2. t \in Seq(Byte) /\ u = Incoming /\ Len(readBuffer) >= Size
      BY <1>0, <2>3, <3>1 DEF Takes
    <3>3. /\ Len(u) >= Size
          /\ SubSeq(readBuffer, Size + 1, Len(readBuffer)) \o t = SubSeq(u, Size + 1, Len(u))
          /\ SubSeq(readBuffer, Size + 1, Len(readBuffer)) \in Seq(Byte)
          /\ u[1] = readBuffer[1]
          /\ (\A k \in 1..Size : u[k] = <<readBuffer[1][1], k>>) =>
               SubSeq(readBuffer, 1, Size) = Bytes(readBuffer[1][1])
      <4>1. FirstTaken(readBuffer, t, u)
        BY <1>0, <3>1, <3>2, TakeConcat
      <4> QED
        BY <4>1, Zenon DEF FirstTaken
    <3>4. /\ f = readBuffer[1][1] /\ readBuffer' = SubSeq(readBuffer, Size + 1, Len(readBuffer))
          /\ SubSeq(readBuffer, 1, Size) = Bytes(f) => UNCHANGED garbled
      BY <2>3 DEF Takes
    <3>5. Incoming' = readBuffer' \o t
      <4>1. Incoming' = (readBuffer' \o buffer) \o toClient
        BY <2>1 DEF Incoming
      <4>2. readBuffer' \in Seq(Byte)
        BY <3>3, <3>4
      <4>3. Associate(readBuffer', buffer, toClient)
        BY <1>0, <4>2, BytesAssociate
      <4> QED
        BY <3>1, <4>1, <4>3, Zenon DEF Associate
    <3>6. Incoming' = SubSeq(Incoming, Size + 1, Len(Incoming))
      BY <3>2, <3>3, <3>4, <3>5
    <3>7. (\A k \in 1..Size : Incoming[k] = <<Incoming[1][1], k>>) => UNCHANGED garbled
      BY <3>2, <3>3, <3>4
    <3> QED
      BY <2>1, <3>2, <3>3, <3>6, <3>7 DEF BytesTaken
  <2> QED
    BY <1>7, <2>2, <2>3, HandleTakes
<1>8. CASE Write
  BY <1>8 DEF Write, BytesStay, Incoming
<1>9. CASE ReceiveDone
  <2>1. PICK n \in 0..Min({receiving, Len(toClient)}) :
          /\ buffer' = SubSeq(toClient, 1, n)
          /\ toClient' = SubSeq(toClient, n + 1, Len(toClient))
    BY <1>9 DEF ReceiveDone
  <2>2. n \in Nat /\ n <= Len(toClient) /\ Len(toClient) \in Nat
    <3>1. /\ Min({receiving, Len(toClient)}) \in Nat
          /\ Min({receiving, Len(toClient)}) <= Len(toClient)
          /\ Len(toClient) \in Nat
      BY <1>0, <1>s, LengthNat, SmallerOf DEF StateTypes
    <3> QED
      BY <2>1, <3>1
  <2>3. buffer' \o toClient' = toClient
    <3>1. Splits(toClient, n)
      BY <1>0, <2>2, BytesSplit
    <3> QED
      BY <2>1, <3>1, Zenon DEF Splits
  <2>4. UNCHANGED <<readBuffer, link, garbled>> /\ asyncRead # "done"
    BY <1>9 DEF ReceiveDone
  <2>5. Incoming' = readBuffer \o (buffer' \o toClient')
    <3>1. Incoming' = (readBuffer \o buffer') \o toClient'
      BY <2>4 DEF Incoming
    <3>2. buffer' \in Seq(Byte) /\ toClient' \in Seq(Byte)
      BY <1>9, FlowTypesStep DEF FlowTypes, Next, Socket
    <3>3. (readBuffer \o buffer') \o toClient' = readBuffer \o (buffer' \o toClient')
      <4>1. Associate(readBuffer, buffer', toClient')
        BY <1>0, <3>2, BytesAssociate
      <4> QED
        BY <4>1, Zenon DEF Associate
    <3> QED
      BY <3>1, <3>3, Zenon
  <2>6. Incoming' = Incoming
    BY <1>0, <1>e, <2>3, <2>4, <2>5
  <2> QED
    BY <2>4, <2>6 DEF BytesStay
<1>10. CASE ConnectionLost
  <2>1. UNCHANGED <<readBuffer, buffer, garbled>> /\ link' # "up"
    BY <1>10 DEF ConnectionLost
  <2>2. CASE UNCHANGED toClient
    BY <2>1, <2>2 DEF BytesStay, Incoming
  <2>3. CASE toClient' = <<>>
    <3>1. readBuffer \o buffer \in Seq(Byte)
      BY <1>0, ConcatProperties
    <3>2. Incoming' = readBuffer \o buffer
      BY <1>e, <2>1, <2>3, <3>1 DEF Incoming
    <3> QED
      BY <1>0, <2>1, <3>2 DEF BytesCut, Incoming
  <2> QED
    BY <1>10, <2>2, <2>3 DEF ConnectionLost
<1>11. CASE ServerTakes
  BY <1>11 DEF ServerTakes, BytesStay, Incoming
<1>12. CASE ServerAnswers \/ \E s \in ServerCalls : ServerCall(s)
  <2>1. link = "up" /\ UNCHANGED <<readBuffer, buffer, garbled>>
    BY <1>12, Zenon DEF ServerAnswers, ServerCall
  <2>2. PICK f \in Frame : toClient' = toClient \o Bytes(f)
    BY <1>12, ServerMakes
  <2>3. Incoming' = Incoming \o Bytes(f)
    <3>1. readBuffer \o buffer \in Seq(Byte) /\ Bytes(f) \in Seq(Byte)
      BY <1>0, BytesFacts, ConcatProperties
    <3>2. Incoming' = (readBuffer \o buffer) \o (toClient \o Bytes(f))
      BY <2>1, <2>2 DEF Incoming
    <3>3. (readBuffer \o buffer) \o (toClient \o Bytes(f)) = ((readBuffer \o buffer) \o toClient) \o Bytes(f)
      <4>1. Associate(readBuffer \o buffer, toClient, Bytes(f))
        BY <1>0, <3>1, BytesAssociate
      <4> QED
        BY <4>1, Zenon DEF Associate
    <3> QED
      BY <3>2, <3>3, Zenon DEF Incoming
  <2> QED
    BY <2>1, <2>3 DEF BytesCome
<1> QED
  BY <1>1, <1>2, <1>3, <1>4, <1>5, <1>6, <1>7, <1>8, <1>9, <1>10, <1>11, <1>12 DEF Next, Update, Socket

(* A receive under way has given nothing yet.                              *)
LEMMA BufferStep ==
  ASSUME Types, WholeInv, [Next]_vars
  PROVE  asyncRead' # "done" => buffer' = <<>>
<1> USE DEF connectVars, writeVars, readVars, callVars, serverVars
<1>0. asyncRead # "done" \/ ~connected => buffer = <<>>
  BY DEF WholeInv, NothingUnderWay
<1>1. CASE UNCHANGED vars
  BY <1>0, <1>1 DEF vars
<1>2. ASSUME NEW c \in Calls, CallMethod(c)
      PROVE  UNCHANGED <<asyncRead, buffer>>
  BY <1>2 DEF CallMethod
<1>3. CASE Connect \/ CloseConnection \/ Reconnect
  BY <1>0, <1>3 DEF Connect, CloseConnection, Reconnect
<1>4. CASE Read
  BY <1>0, <1>4 DEF Read
<1>5. CASE Handle
  BY <1>0, <1>5, HandleTakes
<1>6. CASE Write \/ ConnectDone \/ SendDone \/ ReceiveDone
  BY <1>0, <1>6 DEF Write, ConnectDone, SendDone, ReceiveDone
<1>7. CASE ConnectionLost \/ ServerTakes
  BY <1>0, <1>7 DEF ConnectionLost, ServerTakes
<1>8. CASE ServerAnswers \/ \E s \in ServerCalls : ServerCall(s)
  <2>1. UNCHANGED <<asyncRead, buffer>>
    BY <1>8, Zenon DEF ServerAnswers, ServerCall
  <2> QED
    BY <1>0, <2>1
<1> QED
  BY <1>0, <1>1, <1>2, <1>3, <1>4, <1>5, <1>6, <1>7, <1>8 DEF Next, Update, Socket

LEMMA WholeInvStep ==
  ASSUME TypeInv, WholeInv, [Next]_vars
  PROVE  WholeInv'
<1>0. Types
  BY DEF TypeInv, Types, CallInv
<1>1. Incoming \in Seq(Byte) /\ Aligned(Incoming) /\ (link = "up" => Complete(Incoming)) /\ ~garbled
  BY <1>0, IncomingBytes DEF WholeInv
<1>2. (~connected' => NothingUnderWay') /\ (asyncRead' # "done" => buffer' = <<>>)
  BY <1>0, QuietStep, BufferStep DEF WholeInv
<1>3. Incoming' \in Seq(Byte)
  <2>1. readBuffer' \in Seq(Byte) /\ buffer' \in Seq(Byte) /\ toClient' \in Seq(Byte)
    BY <1>0, FlowTypesStep DEF FlowTypes
  <2> QED
    BY <2>1, ConcatProperties DEF Incoming
<1>4. PICK s, t : s = Incoming /\ t = Incoming'
  OBVIOUS
<1>5. Aligned(t) /\ (link' = "up" => Complete(t)) /\ ~garbled'
  <2>1. CASE BytesStay
    BY <1>1, <1>4, <2>1 DEF BytesStay
  <2>2. CASE BytesCut
    <3>1. PICK u \in Seq(Byte) : s = t \o u
      BY <1>4, <2>2 DEF BytesCut
    <3>2. Aligned(t \o u)
      BY <1>1, <1>4, <3>1
    <3>3. Aligned(t)
      BY <1>3, <1>4, <3>2, AlignedPrefix
    <3> QED
      BY <1>1, <2>2, <3>3 DEF BytesCut
  <2>3. CASE BytesCome
    <3>1. PICK f \in Frame : t = s \o Bytes(f)
      BY <1>4, <2>3 DEF BytesCome
    <3>2. Aligned(s \o Bytes(f)) /\ Complete(s \o Bytes(f))
      BY <1>1, <1>4, <2>3, AlignedAppend DEF BytesCome
    <3> QED
      BY <1>1, <2>3, <3>1, <3>2 DEF BytesCome
  <2>4. CASE BytesTaken
    <3>1. Len(s) >= Size /\ t = SubSeq(s, Size + 1, Len(s)) /\ s \in Seq(Byte) /\ Aligned(s)
      BY <1>1, <1>4, <2>4 DEF BytesTaken
    <3>2. /\ \A k \in 1..Size : s[k] = <<s[1][1], k>>
          /\ Aligned(SubSeq(s, Size + 1, Len(s)))
          /\ Complete(s) => Complete(SubSeq(s, Size + 1, Len(s)))
      BY <3>1, AlignedTake
    <3>3. UNCHANGED <<garbled, link>>
      BY <1>4, <2>4, <3>2 DEF BytesTaken
    <3> QED
      BY <1>1, <1>4, <3>1, <3>2, <3>3
  <2>5. CASE BytesGone
    BY <1>1, <1>4, <2>5, AlignedEmpty DEF BytesGone
  <2> QED
    BY <1>0, <2>1, <2>2, <2>3, <2>4, <2>5, IncomingStep
<1> QED
  BY <1>2, <1>4, <1>5 DEF WholeInv

LEMMA WholeInvCorrect == Spec => []WholeInv
<1>1. Init => WholeInv
  <2> SUFFICES ASSUME Init PROVE WholeInv
    OBVIOUS
  <2>1. /\ toServer = <<>> /\ serving = {} /\ garbled = FALSE /\ link = "none"
        /\ readBuffer = <<>> /\ buffer = <<>> /\ toClient = <<>>
    BY Zenon DEF Init
  <2>2. Incoming = <<>>
    BY <2>1, EmptySeq, ConcatEmptySeq DEF Incoming
  <2>3. Aligned(Incoming) /\ Complete(Incoming)
    BY <2>2, AlignedEmpty
  <2> QED
    BY <2>1, <2>3 DEF WholeInv, NothingUnderWay
<1>2. TypeInv /\ WholeInv /\ [Next]_vars => WholeInv'
  BY WholeInvStep
<1> QED
  BY <1>1, <1>2, TypeInvCorrect, PTL DEF Spec

-----------------------------------------------------------------------------
(* The calls to the server                                                 *)

(* The requests in t are those of the calls in made from n + 1 on, in      *)
(* their order.                                                            *)
Requested(t, calls, n) ==
  \A i \in 1..Len(t) : t[i].stub =>
    \E k \in 1..Len(calls) : k > n /\ calls[k] = t[i].message[2]

Sends(t, calls, n) ==
  \A k \in 1..Len(calls) : k > n =>
    \E i \in 1..Len(t) : t[i].stub /\ t[i].message[2] = calls[k]

OneByOne(t, calls) ==
  \A i, j \in 1..Len(t), k, l \in 1..Len(calls) :
    i < j /\ t[i].stub /\ t[j].stub /\ t[i].message[2] = calls[k] /\ t[j].message[2] = calls[l] => k < l

Carries(t, calls, n) == Requested(t, calls, n) /\ Sends(t, calls, n) /\ OneByOne(t, calls)

Distinct(calls) == \A k, l \in 1..Len(calls) : calls[k] = calls[l] => k = l

LEMMA CarriesNothing ==
  ASSUME NEW n
  PROVE  Carries(<<>>, <<>>, n)
BY EmptySeq DEF Carries, Requested, Sends, OneByOne

LEMMA CarriesOther ==
  ASSUME NEW t \in Seq(Frame), NEW calls \in Seq(Calls), NEW n \in Nat, Carries(t, calls, n),
         NEW f \in Frame, ~f.stub, NEW u, u = Append(t, f)
  PROVE  Carries(u, calls, n)
<1>1. Len(t) \in Nat /\ Len(calls) \in Nat
  BY LengthNat
<1>2. Len(u) = Len(t) + 1 /\ (\A i \in 1..Len(t) : u[i] = t[i]) /\ u[Len(t) + 1] = f
  BY AppendProperties
<1>3. ASSUME NEW i \in 1..Len(u), u[i].stub
      PROVE  i \in 1..Len(t) /\ u[i] = t[i]
  BY <1>1, <1>2, <1>3
<1>4. \A i \in 1..Len(t) : i \in 1..Len(u) /\ u[i] = t[i]
  BY <1>1, <1>2
<1>5. Requested(u, calls, n)
  <2> SUFFICES ASSUME NEW i \in 1..Len(u), u[i].stub
               PROVE  \E k \in 1..Len(calls) : k > n /\ calls[k] = u[i].message[2]
    BY DEF Requested
  <2> QED
    BY <1>3 DEF Carries, Requested
<1>6. Sends(u, calls, n)
  <2> SUFFICES ASSUME NEW k \in 1..Len(calls), k > n
               PROVE  \E i \in 1..Len(u) : u[i].stub /\ u[i].message[2] = calls[k]
    BY DEF Sends
  <2>1. PICK i \in 1..Len(t) : t[i].stub /\ t[i].message[2] = calls[k]
    BY DEF Carries, Sends
  <2> QED
    BY <1>4, <2>1
<1>7. OneByOne(u, calls)
  <2> SUFFICES ASSUME NEW i \in 1..Len(u), NEW j \in 1..Len(u), NEW k \in 1..Len(calls), NEW l \in 1..Len(calls),
                      i < j, u[i].stub, u[j].stub, u[i].message[2] = calls[k], u[j].message[2] = calls[l]
               PROVE  k < l
    BY DEF OneByOne
  <2>1. i \in 1..Len(t) /\ u[i] = t[i] /\ j \in 1..Len(t) /\ u[j] = t[j]
    BY <1>3
  <2> QED
    BY <2>1 DEF Carries, OneByOne
<1> QED
  BY <1>5, <1>6, <1>7 DEF Carries

LEMMA CarriesCall ==
  ASSUME NEW t \in Seq(Frame), NEW calls \in Seq(Calls), NEW n \in Nat, n <= Len(calls),
         Carries(t, calls, n), Distinct(calls),
         NEW f \in Frame, f.stub, NEW c \in Calls, f.message[2] = c,
         \A k \in 1..Len(calls) : calls[k] # c,
         NEW u, u = Append(t, f), NEW new, new = Append(calls, c)
  PROVE  Carries(u, new, n) /\ Distinct(new)
<1>1. Len(t) \in Nat /\ Len(calls) \in Nat
  BY LengthNat
<1>2. Len(u) = Len(t) + 1 /\ (\A i \in 1..Len(t) : u[i] = t[i]) /\ u[Len(t) + 1] = f
  BY AppendProperties
<1>3. /\ Len(new) = Len(calls) + 1 /\ (\A k \in 1..Len(calls) : new[k] = calls[k])
      /\ new[Len(calls) + 1] = c
  BY AppendProperties
<1>4. \A k \in 1..Len(new) : (k \in 1..Len(calls) /\ new[k] = calls[k] /\ new[k] # c)
                             \/ (k = Len(new) /\ new[k] = c)
  BY <1>1, <1>3
<1>5. \A i \in 1..Len(u) : (i \in 1..Len(t) /\ u[i] = t[i]) \/ (i = Len(u) /\ u[i] = f)
  BY <1>1, <1>2
<1>6. Distinct(new)
  BY <1>4 DEF Distinct
<1>7. ASSUME NEW i \in 1..Len(t), u[i].stub
      PROVE  u[i].message[2] # c
  BY <1>2, <1>7 DEF Carries, Requested
<1>8. ASSUME NEW i \in 1..Len(u), u[i].stub
      PROVE  \E k \in 1..Len(new) : k > n /\ new[k] = u[i].message[2]
  <2>1. CASE i \in 1..Len(t)
    <3>1. PICK k \in 1..Len(calls) : k > n /\ calls[k] = u[i].message[2]
      BY <1>2, <1>8, <2>1 DEF Carries, Requested
    <3>2. k \in 1..Len(new) /\ new[k] = calls[k]
      BY <1>1, <1>3, <3>1
    <3> QED
      BY <3>1, <3>2
  <2>2. CASE i = Len(u) /\ u[i] = f
    <3>1. Len(new) \in 1..Len(new) /\ Len(new) > n /\ new[Len(new)] = u[i].message[2]
      BY <1>1, <1>3, <2>2
    <3> QED
      BY <3>1
  <2> QED
    BY <1>5, <2>1, <2>2
<1>9. ASSUME NEW k \in 1..Len(new), k > n
      PROVE  \E i \in 1..Len(u) : u[i].stub /\ u[i].message[2] = new[k]
  <2>1. CASE k \in 1..Len(calls)
    <3>1. PICK i \in 1..Len(t) : t[i].stub /\ t[i].message[2] = calls[k]
      BY <1>9, <2>1 DEF Carries, Sends
    <3>2. i \in 1..Len(u) /\ u[i] = t[i] /\ new[k] = calls[k]
      BY <1>1, <1>2, <1>3, <2>1, <3>1
    <3> QED
      BY <3>1, <3>2
  <2>2. CASE k = Len(new) /\ new[k] = c
    <3>1. Len(u) \in 1..Len(u) /\ u[Len(u)] = f
      BY <1>1, <1>2
    <3> QED
      BY <2>2, <3>1
  <2> QED
    BY <1>4, <2>1, <2>2
<1>10. ASSUME NEW i \in 1..Len(u), NEW j \in 1..Len(u), NEW k \in 1..Len(new), NEW l \in 1..Len(new),
              i < j, u[i].stub, u[j].stub, u[i].message[2] = new[k], u[j].message[2] = new[l]
       PROVE  k < l
  <2>1. i \in 1..Len(t) /\ u[i] = t[i]
    BY <1>1, <1>2, <1>10
  <2>2. k \in 1..Len(calls) /\ new[k] = calls[k]
    BY <1>4, <1>7, <1>10, <2>1
  <2>3. CASE l \in 1..Len(calls) /\ new[l] = calls[l] /\ new[l] # c
    <3>1. j \in 1..Len(t) /\ u[j] = t[j]
      BY <1>5, <1>10, <2>3
    <3> QED
      BY <1>10, <2>1, <2>2, <2>3, <3>1 DEF Carries, OneByOne
  <2>4. CASE l = Len(new)
    BY <1>1, <1>3, <2>2, <2>4
  <2> QED
    BY <1>4, <2>3, <2>4
<1>11. Requested(u, new, n)
  BY <1>8 DEF Requested
<1>12. Sends(u, new, n)
  BY <1>9 DEF Sends
<1>13. OneByOne(u, new)
  BY <1>10 DEF OneByOne
<1> QED
  BY <1>6, <1>11, <1>12, <1>13 DEF Carries

(* The server takes the next call, or what is no request.                  *)
LEMMA CarriesTail ==
  ASSUME NEW t \in Seq(Frame), NEW calls \in Seq(Calls), NEW n \in Nat, n <= Len(calls),
         Carries(t, calls, n), Distinct(calls), t # <<>>,
         NEW f, f = Head(t), NEW u, u = Tail(t)
  PROVE  IF f.stub THEN n + 1 <= Len(calls) /\ calls[n + 1] = f.message[2] /\ Carries(u, calls, n + 1)
         ELSE Carries(u, calls, n)
<1>1. Len(t) \in Nat \ {0} /\ Len(calls) \in Nat
  BY LengthNat, EmptySeq
<1>2. Len(u) = Len(t) - 1 /\ (\A i \in 1..Len(u) : u[i] = t[i + 1]) /\ f = t[1]
  BY HeadTailProperties
<1>3. \A i \in 1..Len(u) : i + 1 \in 1..Len(t) /\ u[i] = t[i + 1] /\ 1 < i + 1
  BY <1>1, <1>2
<1>4. ASSUME NEW i \in 1..Len(t), i # 1
      PROVE  i - 1 \in 1..Len(u) /\ u[i - 1] = t[i]
  <2>1. i - 1 \in 1..Len(u) /\ i - 1 + 1 = i
    BY <1>1, <1>2, <1>4
  <2> QED
    BY <1>2, <2>1
<1>o. ASSUME NEW i \in 1..Len(u), NEW j \in 1..Len(u), NEW k \in 1..Len(calls), NEW l \in 1..Len(calls),
             i < j, u[i].stub, u[j].stub, u[i].message[2] = calls[k], u[j].message[2] = calls[l]
      PROVE  k < l
  <2>1. i + 1 < j + 1
    BY <1>o
  <2> QED
    BY <1>3, <1>o, <2>1 DEF Carries, OneByOne
<1>p. OneByOne(u, calls)
  BY <1>o DEF OneByOne
<1>5. CASE f.stub
  <2>1. 1 \in 1..Len(t)
    BY <1>1
  <2>2. PICK p \in 1..Len(calls) : p > n /\ calls[p] = f.message[2]
    BY <1>2, <1>5, <2>1 DEF Carries, Requested
  <2>3. n + 1 \in 1..Len(calls) /\ n + 1 > n
    BY <1>1, <2>2
  <2>4. PICK i \in 1..Len(t) : t[i].stub /\ t[i].message[2] = calls[n + 1]
    BY <2>3 DEF Carries, Sends
  <2>5. p = n + 1
    <3>1. CASE i = 1
      BY <1>2, <2>2, <2>3, <2>4, <3>1 DEF Distinct
    <3>2. CASE i # 1
      <4>1. 1 < i
        BY <3>2
      <4>2. p < n + 1
        BY <1>2, <1>5, <2>1, <2>2, <2>3, <2>4, <4>1, Zenon DEF Carries, OneByOne
      <4> QED
        BY <1>1, <2>2, <4>2
    <3> QED
      BY <3>1, <3>2
  <2>6. ASSUME NEW j \in 1..Len(u), u[j].stub
        PROVE  \E k \in 1..Len(calls) : k > n + 1 /\ calls[k] = u[j].message[2]
    <3>1. PICK k \in 1..Len(calls) : k > n /\ calls[k] = u[j].message[2]
      BY <1>3, <2>6 DEF Carries, Requested
    <3>2. p < k
      <4>1. PICK i1 : i1 = j + 1
        OBVIOUS
      <4>2. i1 \in 1..Len(t) /\ 1 < i1 /\ t[i1].stub /\ t[i1].message[2] = calls[k]
        BY <1>3, <2>6, <3>1, <4>1
      <4> QED
        BY <1>2, <1>5, <2>1, <2>2, <4>2, Zenon DEF Carries, OneByOne
    <3>3. k > n + 1
      BY <2>5, <3>2
    <3> QED
      BY <3>1, <3>3
  <2>7. ASSUME NEW k \in 1..Len(calls), k > n + 1
        PROVE  \E j \in 1..Len(u) : u[j].stub /\ u[j].message[2] = calls[k]
    <3>1. k > n
      BY <2>7
    <3>2. PICK j \in 1..Len(t) : t[j].stub /\ t[j].message[2] = calls[k]
      BY <3>1 DEF Carries, Sends
    <3>3. j # 1
      BY <1>2, <2>2, <2>5, <2>7, <3>2 DEF Distinct
    <3> QED
      BY <1>4, <3>2, <3>3
  <2>8. Carries(u, calls, n + 1)
    <3>1. Requested(u, calls, n + 1)
      BY <2>6 DEF Requested
    <3>2. Sends(u, calls, n + 1)
      BY <2>7 DEF Sends
    <3> QED
      BY <1>p, <3>1, <3>2 DEF Carries
  <2> QED
    BY <1>5, <2>2, <2>3, <2>5, <2>8
<1>6. CASE ~f.stub
  <2>1. Requested(u, calls, n)
    BY <1>3 DEF Carries, Requested
  <2>2. ASSUME NEW k \in 1..Len(calls), k > n
        PROVE  \E j \in 1..Len(u) : u[j].stub /\ u[j].message[2] = calls[k]
    <3>1. PICK j \in 1..Len(t) : t[j].stub /\ t[j].message[2] = calls[k]
      BY <2>2 DEF Carries, Sends
    <3>2. j # 1
      BY <1>2, <1>6, <3>1
    <3> QED
      BY <1>4, <3>1, <3>2
  <2>3. Carries(u, calls, n)
    <3>1. Sends(u, calls, n)
      BY <2>2 DEF Sends
    <3> QED
      BY <1>p, <2>1, <3>1 DEF Carries
  <2> QED
    BY <1>6, <2>3
<1> QED
  BY <1>5, <1>6

LEMMA FramesAssociate ==
  ASSUME NEW s \in Seq(Frame), NEW t \in Seq(Frame), NEW u \in Seq(Frame)
  PROVE  Associate(s, t, u)
BY ConcatAssociative DEF Associate

LEMMA FirstOfConcat ==
  ASSUME NEW s \in Seq(Frame), NEW t \in Seq(Frame), s # <<>>, NEW u, u = s \o t
  PROVE  /\ u \in Seq(Frame) /\ u # <<>> /\ Head(u) = Head(s)
         /\ Tail(u) = Tail(s) \o t
<1>1. Len(s) \in Nat \ {0} /\ Len(t) \in Nat
  BY LengthNat, EmptySeq
<1>2. /\ u \in Seq(Frame) /\ Len(u) = Len(s) + Len(t)
      /\ \A i \in 1..Len(s) + Len(t) : u[i] = IF i <= Len(s) THEN s[i] ELSE t[i - Len(s)]
  BY ConcatProperties
<1>3. u # <<>>
  BY <1>1, <1>2, EmptySeq
<1>4. PICK a, b, v : a = Tail(s) /\ b = Tail(u) /\ v = a \o t
  OBVIOUS
<1>5. a \in Seq(Frame) /\ Len(a) = Len(s) - 1 /\ \A i \in 1..Len(a) : a[i] = s[i + 1]
  BY <1>4, HeadTailProperties
<1>6. b \in Seq(Frame) /\ Len(b) = Len(u) - 1 /\ \A i \in 1..Len(b) : b[i] = u[i + 1]
  BY <1>2, <1>3, <1>4, HeadTailProperties
<1>7. /\ v \in Seq(Frame) /\ Len(v) = Len(a) + Len(t)
      /\ \A i \in 1..Len(a) + Len(t) : v[i] = IF i <= Len(a) THEN a[i] ELSE t[i - Len(a)]
  BY <1>4, <1>5, ConcatProperties
<1>8. Len(b) = Len(v)
  BY <1>1, <1>2, <1>5, <1>6, <1>7
<1>9. ASSUME NEW i \in 1..Len(b)
      PROVE  b[i] = v[i]
  <2>1. i \in 1..Len(a) + Len(t) /\ i + 1 \in 1..Len(s) + Len(t) /\ b[i] = u[i + 1]
    BY <1>1, <1>2, <1>5, <1>6
  <2>2. CASE i <= Len(a)
    <3>1. i \in 1..Len(a) /\ i + 1 <= Len(s)
      BY <1>1, <1>5, <2>1, <2>2
    <3> QED
      BY <1>2, <1>5, <1>7, <2>1, <2>2, <3>1
  <2>3. CASE ~(i <= Len(a))
    <3>1. ~(i + 1 <= Len(s)) /\ i + 1 - Len(s) = i - Len(a)
      BY <1>1, <1>5, <2>1, <2>3
    <3> QED
      BY <1>2, <1>7, <2>1, <2>3, <3>1
  <2> QED
    BY <2>2, <2>3
<1>10. b = v
  BY <1>6, <1>7, <1>8, <1>9, SeqEqual
<1>11. Head(u) = u[1] /\ Head(s) = s[1] /\ u[1] = s[1]
  BY <1>1, <1>2
<1> QED
  BY <1>2, <1>3, <1>4, <1>10, <1>11

(* What was written and is not served yet.                                 *)
BeingSent == IF asyncWrite = "pending" THEN writeBuffer ELSE <<>>

Stream == toServer \o (BeingSent \o writeBufferPending)

OrderInv ==
  /\ ~connected => made = <<>> /\ served = <<>>
  /\ Distinct(made)
  /\ \A k \in 1..Len(made) : call[made[k]] # "unsent"
  /\ Len(served) <= Len(made) /\ \A k \in 1..Len(served) : served[k] = made[k]
  /\ link = "up" => Carries(Stream, made, Len(served))

StreamStays ==
  /\ UNCHANGED <<made, served>> /\ (~connected' => ~connected)
  /\ link' = "up" => link = "up" /\ Stream' = Stream

StreamCalls(c) ==
  /\ call[c] = "unsent" /\ call'[c] # "unsent"
  /\ UNCHANGED <<connected, link, served>>
  /\ made' = IF connected THEN Append(made, c) ELSE made
  /\ \E f \in Frame : f.stub /\ f.message[2] = c /\ Stream' = Append(Stream, f)

StreamAnswers ==
  /\ UNCHANGED <<connected, link, made, served>>
  /\ \E f \in Frame : ~f.stub /\ Stream' = Append(Stream, f)

StreamServed ==
  /\ link = "up" /\ UNCHANGED <<connected, link, made>>
  /\ Stream # <<>> /\ Stream' = Tail(Stream)
  /\ served' = IF Head(Stream).stub THEN Append(served, Head(Stream).message[2]) ELSE served

StreamEnds == made' = <<>> /\ served' = <<>> /\ link' # "up"

StreamOpens == ~connected /\ UNCHANGED <<made, served>> /\ Stream' = <<>>

LEMMA StreamFrames ==
  ASSUME Types
  PROVE  /\ Stream \in Seq(Frame) /\ BeingSent \in Seq(Frame) /\ BeingSent \o writeBufferPending \in Seq(Frame)
         /\ toServer \in Seq(Frame) /\ writeBuffer \in Seq(Frame) /\ writeBufferPending \in Seq(Frame)
<1>1. toServer \in Seq(Frame) /\ writeBuffer \in Seq(Frame) /\ writeBufferPending \in Seq(Frame)
  BY DEF Types, FlowTypes
<1>2. BeingSent \in Seq(Frame)
  BY <1>1, EmptySeq DEF BeingSent
<1> QED
  BY <1>1, <1>2, ConcatProperties DEF Stream

LEMMA StreamAppend ==
  ASSUME Types, NEW f \in Frame, writeBufferPending' = Append(writeBufferPending, f),
         UNCHANGED <<toServer, asyncWrite, writeBuffer>>
  PROVE  Stream' = Append(Stream, f)
<1>1. /\ Stream \in Seq(Frame) /\ BeingSent \in Seq(Frame) /\ BeingSent \o writeBufferPending \in Seq(Frame)
      /\ toServer \in Seq(Frame) /\ writeBufferPending \in Seq(Frame)
  BY StreamFrames
<1>2. <<f>> \in Seq(Frame)
  OBVIOUS
<1>3. writeBufferPending' = writeBufferPending \o <<f>>
  BY <1>1, AppendIsConcat
<1>4. Append(Stream, f) = Stream \o <<f>>
  BY <1>1, AppendIsConcat
<1>5. /\ Associate(BeingSent, writeBufferPending, <<f>>)
      /\ Associate(toServer, BeingSent \o writeBufferPending, <<f>>)
  BY <1>1, <1>2, FramesAssociate
<1>6. BeingSent' = BeingSent
  BY DEF BeingSent
<1>7. Stream' = toServer \o (BeingSent \o (writeBufferPending \o <<f>>))
  BY <1>3, <1>6, Zenon DEF Stream
<1>8. BeingSent \o (writeBufferPending \o <<f>>) = (BeingSent \o writeBufferPending) \o <<f>>
  BY <1>5, Zenon DEF Associate
<1>9. toServer \o ((BeingSent \o writeBufferPending) \o <<f>>) = Stream \o <<f>>
  BY <1>5, Zenon DEF Associate, Stream
<1> QED
  BY <1>4, <1>7, <1>8, <1>9, Zenon

LEMMA StreamStep ==
  ASSUME Types, WholeInv, [Next]_vars
  PROVE  StreamStays \/ StreamAnswers \/ StreamServed \/ StreamEnds \/ StreamOpens
         \/ \E c \in Calls : StreamCalls(c)
<1> USE DEF connectVars, writeVars, readVars, callVars, serverVars
<1>0. /\ Stream \in Seq(Frame) /\ BeingSent \in Seq(Frame) /\ BeingSent \o writeBufferPending \in Seq(Frame)
      /\ toServer \in Seq(Frame) /\ writeBuffer \in Seq(Frame) /\ writeBufferPending \in Seq(Frame)
      /\ ~connected => toServer = <<>>
  BY StreamFrames DEF WholeInv, NothingUnderWay
<1>e. /\ \A s \in Seq(Frame) : s \o <<>> = s /\ <<>> \o s = s
      /\ <<>> \in Seq(Frame)
  BY ConcatEmptySeq, EmptySeq
<1>1. CASE UNCHANGED vars
  BY <1>1 DEF vars, StreamStays, Stream, BeingSent
<1>2. ASSUME NEW c \in Calls, CallMethod(c)
      PROVE  StreamCalls(c)
  <2>1. PICK f : f = proto'
    OBVIOUS
  <2>2. /\ f \in Frame /\ f.stub /\ f.message[2] = c
        /\ writeBufferPending' = Append(writeBufferPending, f)
        /\ UNCHANGED <<connected, link, served, toServer, asyncWrite, writeBuffer>>
        /\ made' = IF connected THEN Append(made, c) ELSE made
    BY <1>2, <2>1, CallMakes DEF IsRequest
  <2>3. Stream' = Append(Stream, f)
    BY <2>2, StreamAppend
  <2>4. call[c] = "unsent" /\ call'[c] # "unsent"
    BY <1>2 DEF CallMethod, SendRequest, SendNotify, Types, CallTypes
  <2> QED
    BY <2>2, <2>3, <2>4 DEF StreamCalls
<1>3. CASE Connect
  BY <1>3 DEF Connect, StreamStays, Stream, BeingSent
<1>4. CASE CloseConnection
  BY <1>4 DEF CloseConnection, StreamEnds
<1>5. CASE Reconnect
  <2>1. CASE connected'
    <3>1. /\ ~connected /\ asyncWrite' = "null" /\ writeBufferPending' = <<>>
          /\ UNCHANGED <<toServer, made, served>>
      BY <1>5, <2>1 DEF Reconnect, ResetBuffers
    <3>2. Stream' = <<>> \o (<<>> \o <<>>)
      BY <1>0, <3>1 DEF Stream, BeingSent
    <3> QED
      BY <1>e, <3>1, <3>2 DEF StreamOpens
  <2>2. CASE ~connected'
    BY <1>5, <2>2 DEF Reconnect, StreamStays, Stream, BeingSent
  <2> QED
    BY <2>1, <2>2
<1>6. CASE Read
  BY <1>6 DEF Read, StreamStays, Stream, BeingSent
<1>7. CASE Handle
  <2>1. UNCHANGED <<connected, link, made, served, toServer, asyncWrite, writeBuffer>>
    BY <1>7, HandleTakes
  <2>2. CASE UNCHANGED writeBufferPending
    BY <2>1, <2>2 DEF StreamStays, Stream, BeingSent
  <2>3. ASSUME NEW g \in Frame, Takes(g)
        PROVE  StreamStays \/ StreamAnswers
    <3>1. CASE HandlesRequest(g) /\ ~(UNCHANGED writeBufferPending)
      <4>1. PICK f : f = proto'
        OBVIOUS
      <4>2. f \in Frame /\ ~f.stub /\ writeBufferPending' = Append(writeBufferPending, f)
        BY <3>1, <4>1 DEF HandlesRequest, IsAnswer
      <4>3. Stream' = Append(Stream, f)
        BY <2>1, <4>2, StreamAppend
      <4> QED
        BY <2>1, <4>2, <4>3 DEF StreamAnswers
    <3>2. CASE ~HandlesRequest(g)
      <4>1. UNCHANGED writeBufferPending
        BY <2>3, <3>2 DEF Takes, HandlesNothing, HandleResponse
      <4> QED
        BY <2>1, <4>1 DEF StreamStays, Stream, BeingSent
    <3>3. CASE UNCHANGED writeBufferPending
      BY <2>1, <3>3 DEF StreamStays, Stream, BeingSent
    <3> QED
      BY <3>1, <3>2, <3>3
  <2> QED
    BY <1>7, <2>2, <2>3, HandleTakes DEF HandlesNothing
<1>8. CASE Write
  <2>1. UNCHANGED <<connected, link, made, served, toServer>>
    BY <1>8 DEF Write
  <2>2. CASE UNCHANGED <<asyncWrite, writeBuffer, writeBufferPending>>
    BY <2>1, <2>2 DEF StreamStays, Stream, BeingSent
  <2>3. CASE /\ asyncWrite # "pending"
             /\ writeBuffer' = writeBufferPending /\ writeBufferPending' = <<>>
             /\ asyncWrite' = IF writeBuffer' = <<>> THEN "null" ELSE "pending"
    <3>1. BeingSent = <<>> /\ BeingSent' = writeBufferPending
      BY <2>3 DEF BeingSent
    <3>2. BeingSent' \o writeBufferPending' = BeingSent \o writeBufferPending
      BY <1>0, <1>e, <2>3, <3>1
    <3>3. Stream' = Stream
      BY <2>1, <3>2 DEF Stream
    <3> QED
      BY <2>1, <3>3 DEF StreamStays
  <2> QED
    BY <1>8, <2>2, <2>3 DEF Write, WriteReady
<1>9. CASE ConnectDone \/ ReceiveDone
  BY <1>9 DEF ConnectDone, ReceiveDone, StreamStays, Stream, BeingSent
<1>10. CASE SendDone
  <2>1. UNCHANGED <<connected, link, made, served, writeBuffer, writeBufferPending>>
        /\ asyncWrite = "pending" /\ asyncWrite' = "done"
        /\ (link = "up" => toServer' = toServer \o writeBuffer)
    BY <1>10 DEF SendDone
  <2>2. ASSUME link = "up"
        PROVE  Stream' = Stream
    <3>1. BeingSent = writeBuffer /\ BeingSent' = <<>>
      BY <2>1 DEF BeingSent
    <3>2. BeingSent' \o writeBufferPending' = writeBufferPending
      BY <1>0, <1>e, <2>1, <3>1
    <3>3. Stream' = (toServer \o writeBuffer) \o writeBufferPending
      BY <2>1, <2>2, <3>2 DEF Stream
    <3>4. Associate(toServer, writeBuffer, writeBufferPending)
      BY <1>0, FramesAssociate
    <3>5. (toServer \o writeBuffer) \o writeBufferPending = toServer \o (writeBuffer \o writeBufferPending)
      BY <3>4, Zenon DEF Associate
    <3> QED
      BY <3>1, <3>3, <3>5, Zenon DEF Stream
  <2> QED
    BY <2>1, <2>2 DEF StreamStays
<1>11. CASE ConnectionLost
  BY <1>11 DEF ConnectionLost, StreamStays
<1>12. CASE ServerTakes
  <2>1. PICK f : f = Head(toServer)
    OBVIOUS
  <2>2. /\ link = "up" /\ toServer # <<>> /\ toServer' = Tail(toServer)
        /\ served' = IF f.stub THEN Append(served, f.message[2]) ELSE served
        /\ UNCHANGED <<connected, link, made, asyncWrite, writeBuffer, writeBufferPending>>
    BY <1>12, <2>1 DEF ServerTakes
  <2>3. PICK t : t = BeingSent \o writeBufferPending
    OBVIOUS
  <2>4. Stream = toServer \o t /\ Stream' = Tail(toServer) \o t
    BY <2>2, <2>3 DEF Stream, BeingSent
  <2>5. Stream # <<>> /\ Head(Stream) = f /\ Tail(Stream) = Tail(toServer) \o t
    BY <1>0, <2>1, <2>2, <2>3, <2>4, FirstOfConcat
  <2> QED
    BY <2>2, <2>4, <2>5 DEF StreamServed
<1>13. CASE ServerAnswers \/ \E s \in ServerCalls : ServerCall(s)
  <2>1. UNCHANGED <<connected, link, made, served, toServer, asyncWrite, writeBuffer, writeBufferPending>>
    BY <1>13, Zenon DEF ServerAnswers, ServerCall
  <2> QED
    BY <2>1 DEF StreamStays, Stream, BeingSent
<1> QED
  BY <1>1, <1>2, <1>3, <1>4, <1>5, <1>6, <1>7, <1>8, <1>9, <1>10, <1>11, <1>12, <1>13
  DEF Next, Update, Socket

LEMMA StartedStays ==
  ASSUME Types, CallInv, [Next]_vars, NEW c \in Calls, call[c] # "unsent"
  PROVE  call'[c] # "unsent"
<1>0. call \in [Calls -> {"unsent", "waiting", "done", "lost"}]
  BY DEF CallInv, CallTypes
<1>1. CASE CallersRest
  BY <1>1 DEF CallersRest
<1>2. ASSUME NEW d \in Calls, Calling(d)
      PROVE  call'[c] # "unsent"
  BY <1>0, <1>2 DEF Calling, SendRequest, SendNotify
<1>3. CASE Clearing
  BY <1>3 DEF Clearing, ClearRequests
<1>4. ASSUME NEW f \in Frame, Answering(f)
      PROVE  call'[c] # "unsent"
  <2>1. call'[c] = "done" \/ call'[c] = call[c]
    BY <1>4, AnsweringRuns DEF CallersRest
  <2> QED
    BY <2>1
<1> QED
  BY <1>1, <1>2, <1>3, <1>4, CallersStep

LEMMA OrderInvStep ==
  ASSUME TypeInv, WholeInv, OrderInv, [Next]_vars
  PROVE  OrderInv'
<1>0. Types /\ CallInv
  BY DEF TypeInv, Types, CallInv
<1>1. /\ Stream \in Seq(Frame) /\ made \in Seq(Calls) /\ served \in Seq(Names)
      /\ Len(made) \in Nat /\ Len(served) \in Nat /\ Len(served) <= Len(made)
  BY <1>0, StreamFrames, LengthNat DEF Types, FlowTypes, OrderInv
<1>2. \A k \in 1..Len(made) : made[k] \in Calls /\ call[made[k]] # "unsent" /\ call'[made[k]] # "unsent"
  <2> TAKE k \in 1..Len(made)
  <2>1. made[k] \in Calls /\ call[made[k]] # "unsent"
    BY <1>1, ElementOfSeq DEF OrderInv
  <2> QED
    BY <1>0, <2>1, StartedStays
<1>3. link = "up" => connected
  BY <1>0 DEF Types, StateTypes
<1>4. CASE StreamStays
  BY <1>2, <1>4 DEF StreamStays, OrderInv
<1>5. CASE StreamAnswers
  <2>1. PICK f, u : f \in Frame /\ ~f.stub /\ u = Stream' /\ u = Append(Stream, f)
    BY <1>5 DEF StreamAnswers
  <2>2. link = "up" => Carries(u, made, Len(served))
    BY <1>1, <2>1, CarriesOther DEF OrderInv
  <2> QED
    BY <1>2, <1>5, <2>1, <2>2 DEF StreamAnswers, OrderInv
<1>6. CASE StreamServed
  <2>1. PICK f, u, n : f = Head(Stream) /\ u = Tail(Stream) /\ n = Len(served)
    OBVIOUS
  <2>2. IF f.stub THEN n + 1 <= Len(made) /\ made[n + 1] = f.message[2] /\ Carries(u, made, n + 1)
        ELSE Carries(u, made, n)
    BY <1>1, <1>6, <2>1, CarriesTail DEF OrderInv, StreamServed
  <2>3. UNCHANGED <<connected, link, made>> /\ Stream' = u /\ connected
    BY <1>3, <1>6, <2>1 DEF StreamServed
  <2>4. CASE f.stub
    <3>1. served' = Append(served, f.message[2]) /\ f.message[2] \in Names
      <4>1. n + 1 \in 1..Len(made)
        BY <1>1, <2>1, <2>2, <2>4
      <4>2. made[n + 1] \in Calls /\ made[n + 1] = f.message[2]
        BY <1>2, <2>2, <2>4, <4>1
      <4> QED
        BY <1>6, <2>1, <2>4, <4>2 DEF StreamServed, Names
    <3>2. /\ Len(served') = n + 1 /\ (\A k \in 1..n : served'[k] = served[k])
          /\ served'[n + 1] = f.message[2]
      BY <1>1, <2>1, <3>1, AppendProperties
    <3>3. \A k \in 1..n + 1 : served'[k] = made[k]
      <4> TAKE k \in 1..n + 1
      <4>1. k \in 1..n \/ k = n + 1
        BY <1>1, <2>1
      <4> QED
        BY <2>1, <2>2, <2>4, <3>2, <4>1 DEF OrderInv
    <3>4. n + 1 <= Len(made) /\ Carries(u, made, n + 1)
      BY <2>2, <2>4
    <3> QED
      BY <1>2, <2>3, <3>2, <3>3, <3>4 DEF OrderInv
  <2>5. CASE ~f.stub
    <3>1. UNCHANGED served
      BY <1>6, <2>1, <2>5 DEF StreamServed
    <3> QED
      BY <1>2, <2>1, <2>2, <2>3, <2>5, <3>1 DEF OrderInv
  <2> QED
    BY <2>4, <2>5
<1>7. CASE StreamEnds
  <2>1. Len(made') = 0 /\ Len(served') = 0
    BY <1>7, EmptySeq DEF StreamEnds
  <2> QED
    BY <1>7, <2>1 DEF StreamEnds, OrderInv, Distinct
<1>8. CASE StreamOpens
  <2>1. made' = <<>> /\ served' = <<>> /\ Stream' = <<>>
    BY <1>8 DEF StreamOpens, OrderInv
  <2>2. Len(made') = 0 /\ Len(served') = 0
    BY <2>1, EmptySeq
  <2>3. Carries(Stream', made', Len(served'))
    BY <2>1, CarriesNothing
  <2> QED
    BY <2>1, <2>2, <2>3 DEF OrderInv, Distinct
<1>9. ASSUME NEW c \in Calls, StreamCalls(c)
      PROVE  OrderInv'
  <2>1. /\ call[c] = "unsent" /\ call'[c] # "unsent"
        /\ UNCHANGED <<connected, link, served>>
        /\ made' = IF connected THEN Append(made, c) ELSE made
    BY <1>9 DEF StreamCalls
  <2>2. CASE ~connected
    BY <1>2, <1>3, <2>1, <2>2 DEF OrderInv
  <2>3. CASE connected
    <3>1. PICK f, u, new :
            /\ f \in Frame /\ f.stub /\ f.message[2] = c /\ u = Stream' /\ u = Append(Stream, f)
            /\ new = made' /\ new = Append(made, c)
      BY <1>9, <2>1, <2>3 DEF StreamCalls
    <3>2. \A k \in 1..Len(made) : made[k] # c
      BY <1>2, <2>1
    <3>3. /\ Len(new) = Len(made) + 1 /\ (\A k \in 1..Len(made) : new[k] = made[k])
          /\ new[Len(made) + 1] = c
      BY <1>1, <3>1, AppendProperties
    <3>4. link = "up" => Carries(u, new, Len(served))
      <4> SUFFICES ASSUME link = "up" PROVE Carries(u, new, Len(served))
        OBVIOUS
      <4>1. Carries(Stream, made, Len(served)) /\ Distinct(made)
        BY DEF OrderInv
      <4> QED
        BY <1>1, <3>1, <3>2, <4>1, CarriesCall
    <3>5. ASSUME NEW k \in 1..Len(new)
          PROVE  (k \in 1..Len(made) /\ new[k] = made[k] /\ new[k] # c) \/ (k = Len(new) /\ new[k] = c)
      BY <1>1, <3>2, <3>3
    <3>6. Distinct(new)
      <4>1. Distinct(made)
        BY DEF OrderInv
      <4> QED
        BY <3>5, <4>1 DEF Distinct
    <3>7. \A k \in 1..Len(new) : call'[new[k]] # "unsent"
      BY <1>2, <2>1, <3>5
    <3>8. Len(served) <= Len(new) /\ \A k \in 1..Len(served) : served[k] = new[k]
      BY <1>1, <3>3 DEF OrderInv
    <3> QED
      BY <2>1, <2>3, <3>1, <3>4, <3>6, <3>7, <3>8 DEF OrderInv
  <2> QED
    BY <2>2, <2>3
<1> QED
  BY <1>0, <1>4, <1>5, <1>6, <1>7, <1>8, <1>9, StreamStep

(* The server sees the calls of a connection in the order they were made,  *)
(* each once and none of an earlier connection, although they wait in two  *)
(* buffers; and Handle cuts the bytes it gets, in whatever pieces they     *)
(* come, where the frames begin.                                           *)
THEOREM StreamsKept == Spec => []StreamsInOrder
<1>1. Init => OrderInv
  <2> SUFFICES ASSUME Init PROVE OrderInv
    OBVIOUS
  <2>1. made = <<>> /\ served = <<>> /\ link = "none"
    BY Zenon DEF Init
  <2>2. Len(made) = 0 /\ Len(served) = 0
    BY <2>1, EmptySeq
  <2> QED
    BY <2>1, <2>2 DEF OrderInv, Distinct
<1>2. TypeInv /\ WholeInv /\ OrderInv /\ [Next]_vars => OrderInv'
  BY OrderInvStep
<1>3. TypeInv /\ WholeInv /\ OrderInv => StreamsInOrder
  <2> SUFFICES ASSUME TypeInv, WholeInv, OrderInv PROVE StreamsInOrder
    OBVIOUS
  <2>1. /\ made \in Seq(Calls) /\ served \in Seq(Names) /\ Len(made) \in Nat /\ Len(served) \in Nat
        /\ Len(served) <= Len(made) /\ \A k \in 1..Len(served) : served[k] = made[k]
    BY LengthNat DEF TypeInv, FlowTypes, OrderInv
  <2>2. PICK n, a, b : n = Len(served) /\ a = SubSeq(served, 1, n) /\ b = SubSeq(made, 1, n)
    OBVIOUS
  <2>3. n \in Int /\ (\A i \in 1..n : served[i] \in Names) /\ \A i \in 1..n : made[i] \in Names
    BY <2>1, <2>2, ElementOfSeq
  <2>4. /\ a \in Seq(Names) /\ Len(a) = IF 1 <= n THEN n - 1 + 1 ELSE 0
        /\ \A i \in 1..n - 1 + 1 : a[i] = served[1 + i - 1]
    BY <2>2, <2>3, SubSeqProperties
  <2>5. /\ b \in Seq(Names) /\ Len(b) = IF 1 <= n THEN n - 1 + 1 ELSE 0
        /\ \A i \in 1..n - 1 + 1 : b[i] = made[1 + i - 1]
    BY <2>2, <2>3, SubSeqProperties
  <2>6. \A i \in 1..Len(a) : a[i] = b[i]
    <3> TAKE i \in 1..Len(a)
    <3>1. i \in 1..n - 1 + 1 /\ 1 + i - 1 \in 1..n
      BY <2>1, <2>2, <2>4
    <3> QED
      BY <2>1, <2>2, <2>4, <2>5, <3>1
  <2>7. a = b
    BY <2>4, <2>5, <2>6, SeqEqual
  <2>8. IsPrefix(served, made)
    BY <2>1, <2>2, <2>7 DEF IsPrefix
  <2> QED
    BY <2>8 DEF StreamsInOrder, WholeInv
<1> QED
  BY <1>1, <1>2, <1>3, TypeInvCorrect, WholeInvCorrect, PTL DEF Spec

=============================================================================
