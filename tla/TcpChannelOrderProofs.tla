------------------------ MODULE TcpChannelOrderProofs ------------------------
(* Proofs about TcpChannel, continued: requests arrive in the order of the *)
(* calls and no service is handed one twice.                               *)
EXTENDS TcpChannelProofs

(* Of two requests that are under way the first one has the smaller id and *)
(* is for another call.                                                    *)
Before(f, g) == f.stub /\ g.stub => f.id < g.id /\ f.body # g.body

Ordered(s) == \A i, j \in 1..Len(s) : i < j => Before(s[i], s[j])

Precedes(s, t) == \A f \in Elems(s), g \in Elems(t) : Before(f, g)

LEMMA OrderedConcat ==
  ASSUME NEW s \in Seq(Frame), NEW t \in Seq(Frame)
  PROVE  Ordered(s \o t) <=> Ordered(s) /\ Ordered(t) /\ Precedes(s, t)
<1>1. /\ Len(s \o t) = Len(s) + Len(t)
      /\ Len(s) \in Nat /\ Len(t) \in Nat
      /\ \A i \in 1..Len(s) + Len(t) : (s \o t)[i] = IF i <= Len(s) THEN s[i] ELSE t[i - Len(s)]
  BY ConcatProperties, LenProperties
<1>2. \A j \in 1..Len(t) : j + Len(s) \in 1..Len(s) + Len(t) /\ (s \o t)[j + Len(s)] = t[j]
  BY <1>1
<1>3. \A i \in 1..Len(s) : i \in 1..Len(s) + Len(t) /\ (s \o t)[i] = s[i]
  BY <1>1
<1>4. ASSUME Ordered(s \o t)
      PROVE  Ordered(s) /\ Ordered(t) /\ Precedes(s, t)
  <2> HIDE DEF Before
  <2>1. \A i, j \in 1..Len(s) + Len(t) : i < j => Before((s \o t)[i], (s \o t)[j])
    BY <1>1, <1>4 DEF Ordered
  <2>2. Ordered(s)
    BY <1>3, <2>1 DEF Ordered
  <2>3. Ordered(t)
    <3> SUFFICES ASSUME NEW i \in 1..Len(t), NEW j \in 1..Len(t), i < j
                 PROVE  Before(t[i], t[j])
      BY DEF Ordered
    <3>1. i + Len(s) < j + Len(s)
      BY <1>1
    <3> QED
      BY <1>2, <2>1, <3>1
  <2>4. ASSUME NEW i \in 1..Len(s), NEW j \in 1..Len(t)
        PROVE  Before(s[i], t[j])
    <3>1. i < j + Len(s)
      BY <1>1
    <3> QED
      BY <1>2, <1>3, <2>1, <3>1
  <2> QED
    BY <2>2, <2>3, <2>4 DEF Precedes, Elems
<1>5. ASSUME Ordered(s), Ordered(t), Precedes(s, t)
      PROVE  Ordered(s \o t)
  <2> SUFFICES ASSUME NEW i \in 1..Len(s) + Len(t), NEW j \in 1..Len(s) + Len(t), i < j
               PROVE  Before((s \o t)[i], (s \o t)[j])
    BY <1>1 DEF Ordered
  <2> DEFINE k == i - Len(s)
             l == j - Len(s)
  <2>1. CASE j <= Len(s)
    BY <1>1, <1>3, <1>5, <2>1 DEF Ordered
  <2>2. CASE i <= Len(s) /\ j > Len(s)
    <3>1. i \in 1..Len(s) /\ l \in 1..Len(t)
      BY <1>1, <2>2
    <3>2. (s \o t)[i] = s[i] /\ (s \o t)[j] = t[l]
      BY <1>1, <2>2
    <3> QED
      BY <1>5, <3>1, <3>2 DEF Precedes, Elems
  <2>3. CASE i > Len(s)
    <3>1. k \in 1..Len(t) /\ l \in 1..Len(t) /\ k < l
      BY <1>1, <2>3
    <3>2. (s \o t)[i] = t[k] /\ (s \o t)[j] = t[l]
      BY <1>1, <2>3
    <3> QED
      BY <1>5, <3>1, <3>2 DEF Ordered
  <2> QED
    BY <1>1, <2>1, <2>2, <2>3
<1> QED
  BY <1>4, <1>5

LEMMA OrderedSingle ==
  ASSUME NEW x \in Frame
  PROVE  <<x>> \in Seq(Frame) /\ Ordered(<<x>>) /\ Elems(<<x>>) = {x}
<1>1. <<x>> \in Seq(Frame) /\ Len(<<x>>) = 1 /\ <<x>>[1] = x
  OBVIOUS
<1> QED
  BY <1>1 DEF Ordered, Elems

LEMMA OrderedEmpty == <<>> \in Seq(Frame) /\ Ordered(<<>>) /\ Elems(<<>>) = {}
BY DEF Ordered, Elems

LEMMA HeadFirst ==
  ASSUME NEW s \in Seq(Frame), s # <<>>
  PROVE  /\ Head(s) \in Frame /\ Tail(s) \in Seq(Frame)
         /\ s = <<Head(s)>> \o Tail(s)
BY HeadTailProperties

LEMMA AppendLast ==
  ASSUME NEW s \in Seq(Frame), NEW x \in Frame
  PROVE  Append(s, x) = s \o <<x>>
OBVIOUS

-----------------------------------------------------------------------------
(* What one channel has sent and the other has not handled: its buffer,    *)
(* the wire and the writes that wait.                                      *)
Pipe(b, w, q) ==
  /\ Ordered(b) /\ Ordered(w) /\ Ordered(q)
  /\ Precedes(b, w) /\ Precedes(b, q) /\ Precedes(w, q)

UnderWay(b, w, q) == Elems(b) \cup Elems(w) \cup Elems(q)

(* The five things that happen to it.                                      *)
LEMMA PipeRead ==
  ASSUME NEW b \in Seq(Frame), NEW w \in Seq(Frame), NEW q \in Seq(Frame), Pipe(b, w, q),
         NEW k \in 1..Len(w)
  PROVE  LET b2 == b \o SubSeq(w, 1, k)
             w2 == SubSeq(w, k + 1, Len(w))
         IN Pipe(b2, w2, q) /\ UnderWay(b2, w2, q) = UnderWay(b, w, q)
<1> DEFINE u == SubSeq(w, 1, k)
           v == SubSeq(w, k + 1, Len(w))
<1>1. u \in Seq(Frame) /\ v \in Seq(Frame) /\ w = u \o v /\ Elems(w) = Elems(u) \cup Elems(v)
  BY ElemsSplit
<1> HIDE DEF u, v
<1>2. Ordered(u) /\ Ordered(v) /\ Precedes(u, v)
  BY <1>1, OrderedConcat DEF Pipe
<1>3. Precedes(b, u)
  BY <1>1 DEF Pipe, Precedes
<1>4. Ordered(b \o u) /\ Elems(b \o u) = Elems(b) \cup Elems(u)
  BY <1>1, <1>2, <1>3, OrderedConcat, ElemsConcat DEF Pipe
<1>5. Precedes(b \o u, v) /\ Precedes(b \o u, q) /\ Precedes(v, q)
  BY <1>1, <1>2, <1>4 DEF Pipe, Precedes
<1>6. Pipe(b \o u, v, q) /\ UnderWay(b \o u, v, q) = UnderWay(b, w, q)
  BY <1>1, <1>2, <1>4, <1>5 DEF Pipe, UnderWay
<1> QED
  BY <1>6 DEF u, v

LEMMA PipeFlush ==
  ASSUME NEW b \in Seq(Frame), NEW w \in Seq(Frame), NEW q \in Seq(Frame), Pipe(b, w, q), q # <<>>
  PROVE  /\ Pipe(b, Append(w, Head(q)), Tail(q)) /\ Pipe(b, w, Tail(q))
         /\ UnderWay(b, Append(w, Head(q)), Tail(q)) \subseteq UnderWay(b, w, q)
         /\ UnderWay(b, w, Tail(q)) \subseteq UnderWay(b, w, q)
<1> DEFINE h == <<Head(q)>>
           t == Tail(q)
<1>1. /\ Head(q) \in Frame /\ t \in Seq(Frame) /\ q = h \o t
      /\ h \in Seq(Frame) /\ Ordered(h) /\ Append(w, Head(q)) = w \o h
  BY HeadFirst, OrderedSingle, AppendLast
<1> HIDE DEF h, t
<1>2. Ordered(t) /\ Precedes(h, t) /\ Elems(q) = Elems(h) \cup Elems(t)
  BY <1>1, OrderedConcat, ElemsConcat DEF Pipe
<1>3. Precedes(w, h) /\ Precedes(w, t) /\ Precedes(b, h) /\ Precedes(b, t)
  BY <1>2 DEF Pipe, Precedes
<1>4. Ordered(w \o h) /\ Elems(w \o h) = Elems(w) \cup Elems(h)
  BY <1>1, <1>3, OrderedConcat, ElemsConcat DEF Pipe
<1>5. Precedes(b, w \o h) /\ Precedes(w \o h, t)
  BY <1>2, <1>3, <1>4 DEF Pipe, Precedes
<1>6. /\ Pipe(b, w \o h, t) /\ Pipe(b, w, t)
      /\ UnderWay(b, w \o h, t) \subseteq UnderWay(b, w, q)
      /\ UnderWay(b, w, t) \subseteq UnderWay(b, w, q)
  BY <1>2, <1>3, <1>4, <1>5 DEF Pipe, UnderWay
<1> QED
  BY <1>1, <1>6 DEF t

LEMMA PipeHandle ==
  ASSUME NEW b \in Seq(Frame), NEW w \in Seq(Frame), NEW q \in Seq(Frame), Pipe(b, w, q), b # <<>>
  PROVE  /\ Pipe(Tail(b), w, q)
         /\ UnderWay(Tail(b), w, q) \subseteq UnderWay(b, w, q)
         /\ \A f \in UnderWay(Tail(b), w, q) : Before(Head(b), f)
<1> DEFINE h == <<Head(b)>>
           t == Tail(b)
<1>1. Head(b) \in Frame /\ t \in Seq(Frame) /\ b = h \o t /\ h \in Seq(Frame) /\ Elems(h) = {Head(b)}
  BY HeadFirst, OrderedSingle
<1> HIDE DEF h, t
<1>2. Ordered(t) /\ Precedes(h, t) /\ Elems(b) = Elems(h) \cup Elems(t)
  BY <1>1, OrderedConcat, ElemsConcat DEF Pipe
<1>3. Precedes(t, w) /\ Precedes(t, q) /\ Precedes(h, w) /\ Precedes(h, q)
  BY <1>2 DEF Pipe, Precedes
<1>4. Pipe(t, w, q) /\ UnderWay(t, w, q) \subseteq UnderWay(b, w, q)
  BY <1>2, <1>3 DEF Pipe, UnderWay
<1>5. \A f \in UnderWay(t, w, q) : Before(Head(b), f)
  BY <1>1, <1>2, <1>3 DEF UnderWay, Precedes
<1> QED
  BY <1>4, <1>5 DEF t

LEMMA PipeLost ==
  ASSUME NEW b, NEW w, NEW q, Pipe(b, w, q)
  PROVE  /\ Pipe(<<>>, <<>>, q) /\ Pipe(b, w, <<>>) /\ Pipe(b, <<>>, q)
         /\ UnderWay(<<>>, <<>>, q) \subseteq UnderWay(b, w, q)
         /\ UnderWay(b, w, <<>>) \subseteq UnderWay(b, w, q)
         /\ UnderWay(b, <<>>, q) \subseteq UnderWay(b, w, q)
BY OrderedEmpty DEF Pipe, UnderWay, Precedes

LEMMA PipeAppend ==
  ASSUME NEW b \in Seq(Frame), NEW w \in Seq(Frame), NEW q \in Seq(Frame), Pipe(b, w, q),
         NEW x \in Frame, \A f \in UnderWay(b, w, q) : Before(f, x)
  PROVE  /\ Pipe(b, w, Append(q, x))
         /\ UnderWay(b, w, Append(q, x)) = UnderWay(b, w, q) \cup {x}
<1>1. <<x>> \in Seq(Frame) /\ Ordered(<<x>>) /\ Elems(<<x>>) = {x} /\ Append(q, x) = q \o <<x>>
  BY OrderedSingle, AppendLast
<1> DEFINE n == <<x>>
<1> HIDE DEF n
<1>2. n \in Seq(Frame) /\ Ordered(n) /\ Elems(n) = {x} /\ Append(q, x) = q \o n
  BY <1>1 DEF n
<1>3. Precedes(b, n) /\ Precedes(w, n) /\ Precedes(q, n)
  BY <1>2 DEF UnderWay, Precedes
<1>4. Ordered(q \o n) /\ Elems(q \o n) = Elems(q) \cup {x}
  BY <1>2, <1>3, OrderedConcat, ElemsConcat DEF Pipe
<1> QED
  BY <1>2, <1>3, <1>4 DEF Pipe, UnderWay, Precedes

-----------------------------------------------------------------------------
PipeFrom(e) == Pipe(buffer[Peer[e]], wire[Peer[e]], writeQueue[e])

UnderWayFrom(e) == UnderWay(buffer[Peer[e]], wire[Peer[e]], writeQueue[e])

(* No request that is under way has been executed, and no call that has    *)
(* not been made.                                                          *)
OrderInv ==
  /\ \A e \in Ends : /\ PipeFrom(e)
                     /\ \A f \in UnderWayFrom(e) : f.stub => executed[f.body] = 0
  /\ \A c \in Calls : /\ executed[c] <= 1
                      /\ outcome[c] = "idle" => executed[c] = 0

LEMMA UnderWayKnown ==
  ASSUME TypeOK, FrameInv, NEW e \in Ends, NEW f \in UnderWayFrom(e)
  PROVE  /\ f \in Frame /\ f.id \in Nat /\ f.body \in Calls
         /\ f.stub => Known(e, f.id, f.body)
<1>1. f \in Sent(e)
  BY DEF UnderWayFrom, UnderWay, Sent
<1>2. f \in Frame
  BY <1>1, SentType
<1> QED
  BY <1>1, <1>2, FrameTypes DEF FrameInv, FrameOK

LEMMA PipeTypes ==
  ASSUME TypeOK, NEW e \in Ends
  PROVE  /\ Peer[e] \in Ends /\ Peer[Peer[e]] = e
         /\ buffer[e] \in Seq(Frame) /\ wire[e] \in Seq(Frame) /\ writeQueue[e] \in Seq(Frame)
         /\ buffer[Peer[e]] \in Seq(Frame) /\ wire[Peer[e]] \in Seq(Frame)
BY PeerFacts DEF TypeOK

(* What a step adds to what is under way from e: an answer, or the request *)
(* of the call that is made.                                               *)
Adds(e, f) ==
  \/ ~f.stub
  \/ \E c \in Calls : CallMethod(e, c) /\ f = Request(transmitId[e], c)

PipeKept(e) ==
  /\ PipeFrom(e)'
  /\ \A f \in UnderWayFrom(e)' : f \in UnderWayFrom(e) \/ Adds(e, f)

LEMMA PipeSame ==
  ASSUME NEW e \in Ends, PipeFrom(e),
         UNCHANGED <<buffer[Peer[e]], wire[Peer[e]], writeQueue[e]>>
  PROVE  PipeKept(e)
BY DEF PipeKept, PipeFrom, UnderWayFrom

LEMMA PipeAnswer ==
  ASSUME TypeOK, NEW e \in Ends, PipeFrom(e), NEW x \in Frame, ~x.stub,
         UNCHANGED <<buffer[Peer[e]], wire[Peer[e]]>>, writeQueue'[e] = Append(writeQueue[e], x)
  PROVE  PipeKept(e)
<1>1. \A f \in UnderWayFrom(e) : Before(f, x)
  BY DEF Before
<1> QED
  BY <1>1, PipeTypes, PipeAppend DEF PipeKept, PipeFrom, UnderWayFrom, Adds

LEMMA PipeRequest ==
  ASSUME TypeOK, FrameInv, NEW e \in Ends, PipeFrom(e), NEW c \in Calls, CallMethod(e, c)
  PROVE  PipeKept(e)
<1> DEFINE x == Request(transmitId[e], c)
<1>1. /\ x \in Frame /\ x.id = transmitId[e] /\ x.body = c
      /\ transmitId[e] \in Nat
  BY FrameTypes DEF TypeOK, Request
<1>2. outcome[c] = "idle" /\ UNCHANGED <<buffer, wire>> /\ writeQueue'[e] = Append(writeQueue[e], x)
  BY DEF CallMethod, TypeOK, readVars
<1> HIDE DEF x
<1>3. \A f \in UnderWayFrom(e) : Before(f, x)
  BY <1>1, <1>2, UnderWayKnown DEF Before, Known
<1>4. Adds(e, x)
  BY DEF Adds, x
<1>5. /\ Pipe(buffer[Peer[e]], wire[Peer[e]], Append(writeQueue[e], x))
      /\ UnderWay(buffer[Peer[e]], wire[Peer[e]], Append(writeQueue[e], x)) = UnderWayFrom(e) \cup {x}
  BY <1>1, <1>3, PipeTypes, PipeAppend DEF PipeFrom, UnderWayFrom
<1> QED
  BY <1>2, <1>4, <1>5 DEF PipeKept, PipeFrom, UnderWayFrom

(* OnTimer takes a frame out of one pipe and may put an answer into the    *)
(* other.                                                                  *)
LEMMA PipeTimer ==
  ASSUME TypeOK, NEW e \in Ends, PipeFrom(e), NEW g \in Ends, OnTimer(g)
  PROVE  /\ PipeKept(e)
         /\ Handle(g) /\ g = Peer[e] => \A f \in UnderWayFrom(e)' : Before(NextFrame(g), f)
<1> USE DEF serverVars, linkVars, userVars
<1>1. CASE LackData(g)
  <2>1. UNCHANGED <<buffer, wire, writeQueue>> /\ ~Handle(g)
    BY <1>1 DEF LackData, Handle
  <2> QED
    BY <2>1, PipeSame
<1>2. CASE Handle(g)
  <2>1. buffer[g] # <<>> /\ buffer' = [buffer EXCEPT ![g] = Tail(@)] /\ UNCHANGED wire
    BY <1>2 DEF Handle
  <2>2. PICK x \in Frame :
          ~x.stub /\ writeQueue' \in {writeQueue, [writeQueue EXCEPT ![g] = Append(@, x)]}
    <3> DEFINE r == Response(RequestOf(NextFrame(g)), TRUE)
    <3>1. r \in Frame /\ ~r.stub
      BY <1>2, HandleType, FrameTypes DEF Response
    <3>2. writeQueue' \in {writeQueue, [writeQueue EXCEPT ![g] = Append(@, r)]}
      BY <1>2 DEF OnTimer, LackData, RejectRequest, ServiceNotImplement, HandleRequest, HandleReply,
                   TimerReturn, linkVars
    <3> QED
      BY <3>1, <3>2
  <2>3. CASE g = Peer[e]
    <3>1. g # e
      BY <2>3, PeerFacts
    <3>2. /\ buffer'[Peer[e]] = Tail(buffer[Peer[e]]) /\ wire'[Peer[e]] = wire[Peer[e]]
          /\ writeQueue'[e] = writeQueue[e] /\ buffer[Peer[e]] # <<>>
      BY <2>1, <2>2, <2>3, <3>1 DEF TypeOK
    <3>3. /\ Pipe(Tail(buffer[Peer[e]]), wire[Peer[e]], writeQueue[e])
          /\ UnderWay(Tail(buffer[Peer[e]]), wire[Peer[e]], writeQueue[e]) \subseteq UnderWayFrom(e)
          /\ \A f \in UnderWay(Tail(buffer[Peer[e]]), wire[Peer[e]], writeQueue[e]) :
               Before(Head(buffer[Peer[e]]), f)
      BY <3>2, PipeTypes, PipeHandle DEF PipeFrom, UnderWayFrom
    <3> QED
      BY <2>3, <3>2, <3>3 DEF PipeKept, PipeFrom, UnderWayFrom, NextFrame
  <2>4. CASE g # Peer[e]
    <3>1. UNCHANGED <<buffer[Peer[e]], wire[Peer[e]]>>
      BY <2>1, <2>4, PeerFacts DEF TypeOK
    <3>2. writeQueue'[e] \in {writeQueue[e], Append(writeQueue[e], x)}
      BY <2>2 DEF TypeOK
    <3> QED
      BY <2>2, <2>4, <3>1, <3>2, PipeSame, PipeAnswer
  <2> QED
    BY <2>3, <2>4
<1>3. CASE TimerReturn(g)
  <2>1. UNCHANGED <<buffer, wire, writeQueue>> /\ ~Handle(g)
    BY <1>3 DEF TimerReturn, Handle, Tick, InLoop, linkVars
  <2> QED
    BY <2>1, PipeSame
<1> QED
  BY <1>1, <1>2, <1>3 DEF OnTimer, RejectRequest, ServiceNotImplement, HandleRequest, HandleReply

LEMMA PipeIo ==
  ASSUME TypeOK, NEW e \in Ends, PipeFrom(e), NEW g \in Ends,
         OnRead(g) \/ AfterWrite(g) \/ KernelWrite(g) \/ Reset(g) \/ Close(g)
  PROVE  PipeKept(e)
<1> USE DEF serverVars, linkVars, readVars, userVars
<1>0. Peer[e] \in Ends /\ Peer[Peer[e]] = e
  BY PeerFacts
<1>1. CASE OnRead(g)
  <2>1. PICK k \in 1..Len(wire[g]) :
          /\ buffer' = [buffer EXCEPT ![g] = @ \o SubSeq(wire[g], 1, k)]
          /\ wire' = [wire EXCEPT ![g] = SubSeq(@, k + 1, Len(@))]
    BY <1>1 DEF OnRead
  <2>2. UNCHANGED writeQueue
    BY <1>1 DEF OnRead
  <2>3. CASE g = Peer[e]
    <3>1. /\ buffer'[Peer[e]] = buffer[Peer[e]] \o SubSeq(wire[Peer[e]], 1, k)
          /\ wire'[Peer[e]] = SubSeq(wire[Peer[e]], k + 1, Len(wire[Peer[e]]))
      BY <1>0, <2>1, <2>3 DEF TypeOK
    <3> QED
      BY <2>1, <2>2, <2>3, <3>1, PipeTypes, PipeRead DEF PipeKept, PipeFrom, UnderWayFrom
  <2>4. CASE g # Peer[e]
    BY <1>0, <2>1, <2>2, <2>4, PipeSame DEF TypeOK
  <2> QED
    BY <2>3, <2>4
<1>2. CASE AfterWrite(g)
  BY <1>2, PipeSame DEF AfterWrite, AfterSendRequest, AfterSendResponse
<1>3. CASE KernelWrite(g)
  <2>1. /\ writeQueue[g] # <<>>
        /\ writeQueue' = [writeQueue EXCEPT ![g] = Tail(@)]
        /\ wire' \in {wire, [wire EXCEPT ![Peer[g]] = Append(@, Head(writeQueue[g]))]}
        /\ UNCHANGED buffer
    BY <1>3 DEF KernelWrite, Flush, FlushError
  <2>2. CASE g = e
    <3>1. /\ writeQueue'[e] = Tail(writeQueue[e]) /\ writeQueue[e] # <<>>
          /\ wire'[Peer[e]] \in {wire[Peer[e]], Append(wire[Peer[e]], Head(writeQueue[e]))}
          /\ buffer'[Peer[e]] = buffer[Peer[e]]
      BY <1>0, <2>1, <2>2 DEF TypeOK
    <3> DEFINE b == buffer[Peer[e]]
               w == wire[Peer[e]]
               q == writeQueue[e]
    <3>2. /\ Pipe(b, Append(w, Head(q)), Tail(q)) /\ Pipe(b, w, Tail(q))
          /\ UnderWay(b, Append(w, Head(q)), Tail(q)) \subseteq UnderWay(b, w, q)
          /\ UnderWay(b, w, Tail(q)) \subseteq UnderWay(b, w, q)
      BY <3>1, PipeTypes, PipeFlush DEF PipeFrom
    <3> QED
      BY <3>1, <3>2 DEF PipeKept, PipeFrom, UnderWayFrom
  <2>3. CASE g # e
    <3>1. Peer[g] # Peer[e]
      BY <2>3, PeerFacts
    <3>2. UNCHANGED <<buffer[Peer[e]], wire[Peer[e]], writeQueue[e]>>
      BY <1>0, <2>1, <2>3, <3>1 DEF TypeOK
    <3> QED
      BY <3>2, PipeSame
  <2> QED
    BY <2>2, <2>3
<1>4. CASE Reset(g)
  <2>1. UNCHANGED <<buffer, writeQueue>> /\ wire'[Peer[e]] \in {wire[Peer[e]], <<>>}
    BY <1>0, <1>4 DEF Reset, TypeOK
  <2> QED
    BY <2>1, PipeLost DEF PipeKept, PipeFrom, UnderWayFrom
<1>5. CASE Close(g)
  <2>1. /\ buffer' = [buffer EXCEPT ![g] = <<>>]
        /\ wire' = [wire EXCEPT ![g] = <<>>]
        /\ writeQueue' = [writeQueue EXCEPT ![g] = <<>>]
    BY <1>5 DEF Close
  <2>2. CASE g = Peer[e]
    <3>1. buffer'[Peer[e]] = <<>> /\ wire'[Peer[e]] = <<>> /\ writeQueue'[e] = writeQueue[e]
      BY <1>0, <2>1, <2>2, PeerFacts DEF TypeOK
    <3> QED
      BY <3>1, PipeLost DEF PipeKept, PipeFrom, UnderWayFrom
  <2>3. CASE g # Peer[e]
    <3>1. /\ buffer'[Peer[e]] = buffer[Peer[e]] /\ wire'[Peer[e]] = wire[Peer[e]]
          /\ writeQueue'[e] \in {writeQueue[e], <<>>}
      BY <1>0, <2>1, <2>3 DEF TypeOK
    <3> QED
      BY <3>1, PipeLost DEF PipeKept, PipeFrom, UnderWayFrom
  <2> QED
    BY <2>2, <2>3
<1> QED
  BY <1>1, <1>2, <1>3, <1>4, <1>5

LEMMA PipeStep ==
  ASSUME TypeOK, FrameInv, [Next]_vars, NEW e \in Ends, PipeFrom(e)
  PROVE  PipeKept(e)
<1> USE DEF serverVars, linkVars, readVars, userVars
<1>1. CASE UNCHANGED vars
  BY <1>1, PipeSame DEF vars
<1>2. ASSUME NEW g \in Ends, NEW c \in Calls, UserCall(g, c)
      PROVE  PipeKept(e)
  <2>1. CASE CallMethod(g, c) /\ g = e
    BY <2>1, PipeRequest
  <2>2. CASE CallMethod(g, c) /\ g # e
    BY <2>2, PipeSame DEF CallMethod, TypeOK
  <2>3. CASE CallDisconnected(g, c) \/ CallMethodFails(g, c)
    BY <2>3, PipeSame DEF CallDisconnected, CallMethodFails
  <2> QED
    BY <1>2, <2>1, <2>2, <2>3 DEF UserCall
<1>3. ASSUME NEW g \in Ends, NEW c \in Calls, Answer(g, c)
      PROVE  PipeKept(e)
  <2>1. PICK s \in serving[g], failed \in BOOLEAN : TcpClosureRun(g, s, failed)
    BY <1>3 DEF Answer
  <2>2. Response(s, failed) \in Frame /\ ~Response(s, failed).stub
    BY FrameTypes DEF TypeOK, Response
  <2>3. /\ UNCHANGED <<buffer, wire>>
        /\ writeQueue'[e] \in {writeQueue[e], Append(writeQueue[e], Response(s, failed))}
    BY <2>1 DEF TcpClosureRun, TypeOK
  <2> QED
    BY <2>2, <2>3, PipeSame, PipeAnswer
<1> QED
  BY <1>1, <1>2, <1>3, PipeTimer, PipeIo DEF Next, Disconnected, UserClose, Terminated

-----------------------------------------------------------------------------
(* A call that has been made is never idle again.                          *)
LEMMA IdleStep ==
  ASSUME TypeOK, CallInv, [Next]_vars, NEW c \in Calls, outcome'[c] = "idle"
  PROVE  outcome[c] = "idle"
<1>1. CASE UNCHANGED callVars
  BY <1>1 DEF callVars, userVars
<1>2. CASE EndsOneCall
  BY <1>2 DEF EndsOneCall, HandleResponse, RunDone, Ended, TypeOK, userVars
<1>3. ASSUME NEW e \in Ends, NEW d \in Calls, UserCall(e, d)
      PROVE  outcome[c] = "idle"
  BY <1>3 DEF UserCall, CallDisconnected, CallMethod, CallMethodFails, RunDone, TypeOK
<1>4. ASSUME NEW e \in Ends, Close(e)
      PROVE  outcome[c] = "idle"
  BY <1>4 DEF Close, CancelWaiting, TypeOK
<1> QED
  BY <1>1, <1>2, <1>3, <1>4, StepOnCalls

(* The request that is executed is the first that is under way.            *)
LEMMA ExecutesFirst ==
  ASSUME TypeOK, FrameInv, OrderInv, NEW g \in Ends, HandleRequest(g)
  PROVE  LET e == Peer[g]
             f == NextFrame(g)
         IN /\ e \in Ends /\ Peer[e] = g /\ f \in UnderWayFrom(e)
            /\ f.stub /\ f.body \in Calls /\ Owner[f.body] = e /\ outcome[f.body] # "idle"
            /\ executed[f.body] = 0
            /\ executed' = [executed EXCEPT ![f.body] = 1]
            /\ \A h \in UnderWayFrom(e)' : Before(f, h)
<1> DEFINE e == Peer[g]
           f == NextFrame(g)
<1>1. e \in Ends /\ Peer[e] = g
  BY PeerFacts
<1>2. f \in UnderWayFrom(e)
  <2>1. f \in Elems(buffer[g])
    BY ElemsHeadTail DEF HandleRequest, Handle, NextFrame, TypeOK
  <2> QED
    BY <1>1, <2>1 DEF UnderWayFrom, UnderWay
<1>3. f.stub /\ Handle(g)
  BY DEF HandleRequest
<1>4. f.body \in Calls /\ Owner[f.body] = e /\ outcome[f.body] # "idle"
  BY <1>1, <1>2, <1>3, UnderWayKnown DEF Known
<1>5. executed[f.body] = 0
  BY <1>1, <1>2, <1>3 DEF OrderInv
<1>6. executed' = [executed EXCEPT ![f.body] = 1]
  BY <1>4, <1>5 DEF HandleRequest, TypeOK
<1>7. OnTimer(g) /\ PipeFrom(e)
  BY <1>1 DEF OnTimer, OrderInv
<1>8. \A h \in UnderWayFrom(e)' : Before(f, h)
  BY <1>1, <1>3, <1>7, PipeTimer
<1> QED
  BY <1>1, <1>2, <1>3, <1>4, <1>5, <1>6, <1>8

LEMMA OrderInvStep == TypeOK /\ CallInv /\ FrameInv /\ OrderInv /\ [Next]_vars => OrderInv'
<1> SUFFICES ASSUME TypeOK, CallInv, FrameInv, OrderInv, [Next]_vars PROVE OrderInv'
  OBVIOUS
<1>0. FrameInv' /\ TypeOK'
  BY FrameInvStep, TypeStep
<1>1. \A e \in Ends : PipeKept(e)
  BY PipeStep DEF OrderInv
<1>2. ASSUME NEW e \in Ends, NEW f \in UnderWayFrom(e)', f.stub
      PROVE  executed[f.body] = 0 /\ f.body \in Calls /\ Owner[f.body] = e
  <2>1. CASE f \in UnderWayFrom(e)
    BY <1>2, <2>1, UnderWayKnown DEF OrderInv, Known
  <2>2. ASSUME NEW c \in Calls, CallMethod(e, c), f = Request(transmitId[e], c)
        PROVE  executed[f.body] = 0 /\ f.body \in Calls /\ Owner[f.body] = e
    BY <2>2 DEF CallMethod, Request, OrderInv
  <2> QED
    BY <1>1, <1>2, <2>1, <2>2 DEF PipeKept, Adds
<1>3. CASE executed' = executed
  BY <1>1, <1>2, <1>3, IdleStep DEF OrderInv, PipeKept
<1>4. ASSUME NEW g \in Ends, HandleRequest(g)
      PROVE  OrderInv'
  <2> DEFINE d == NextFrame(g).body
  <2>1. /\ Peer[g] \in Ends /\ NextFrame(g).stub /\ d \in Calls /\ Owner[d] = Peer[g] /\ outcome[d] # "idle"
        /\ executed' = [executed EXCEPT ![d] = 1]
        /\ \A h \in UnderWayFrom(Peer[g])' : Before(NextFrame(g), h)
    BY <1>4, ExecutesFirst
  <2>2. ASSUME NEW e \in Ends, NEW f \in UnderWayFrom(e)', f.stub
        PROVE  executed'[f.body] = 0
    <3>1. executed[f.body] = 0 /\ f.body \in Calls /\ Owner[f.body] = e
      BY <1>2, <2>2
    <3>2. f.body # d
      BY <2>1, <2>2, <3>1 DEF Before
    <3> QED
      BY <2>1, <3>1, <3>2 DEF TypeOK
  <2>3. \A c \in Calls : /\ executed'[c] <= 1
                         /\ outcome'[c] = "idle" => executed'[c] = 0
    <3> HIDE DEF d
    <3>1. \A c \in Calls : executed'[c] = IF c = d THEN 1 ELSE executed[c]
      BY <2>1 DEF TypeOK
    <3>2. \A c \in Calls : outcome'[c] = "idle" => outcome[c] = "idle"
      BY IdleStep
    <3> QED
      BY <2>1, <3>1, <3>2 DEF OrderInv
  <2> QED
    BY <1>1, <2>2, <2>3 DEF OrderInv, PipeKept
<1> QED
  BY <1>3, <1>4, ServerStep

LEMMA OrderInvCorrect == Spec => []OrderInv
<1>1. Init => OrderInv
  <2> SUFFICES ASSUME Init, NEW e \in Ends
               PROVE  PipeFrom(e) /\ UnderWayFrom(e) = {}
    BY DEF Init, OrderInv
  <2>1. buffer[Peer[e]] = <<>> /\ wire[Peer[e]] = <<>> /\ writeQueue[e] = <<>>
    BY PeerFacts DEF Init
  <2> QED
    BY <2>1, OrderedEmpty DEF PipeFrom, UnderWayFrom, Pipe, UnderWay, Precedes
<1> QED
  BY <1>1, OrderInvStep, FrameInvCorrect, CallInvCorrect, TypeCorrect, PTL DEF Spec

(* No service is handed a request a second time, whatever is buffered,     *)
(* lost or answered in the meantime.                                       *)
THEOREM ExecutedOnce == Spec => []ExecutedAtMostOnce
<1>1. OrderInv => ExecutedAtMostOnce
  BY DEF OrderInv, ExecutedAtMostOnce
<1> QED
  BY <1>1, OrderInvCorrect, PTL

(* Requests are executed in the order of the calls, whatever the reads     *)
(* they come in by and however many are lost.                              *)
THEOREM OrderKept == Spec => ServedInOrder
<1> DEFINE Frames(c) == InFlight(Owner[c])
           InOrder == \A c \in Calls :
             executed'[c] > executed[c] =>
               \A i, j \in 1..Len(Frames(c)) :
                 Frames(c)[i].stub /\ Frames(c)[j].stub /\ Frames(c)[j].body = c
                   => Frames(c)[i].id >= Frames(c)[j].id
<1>1. ASSUME TypeOK, FrameInv, OrderInv, [Next]_vars PROVE InOrder
  <2> SUFFICES ASSUME NEW c \in Calls, executed'[c] > executed[c],
                      NEW i \in 1..Len(Frames(c)), NEW j \in 1..Len(Frames(c)),
                      Frames(c)[i].stub, Frames(c)[j].stub, Frames(c)[j].body = c
               PROVE  Frames(c)[i].id >= Frames(c)[j].id
    OBVIOUS
  <2>1. PICK g \in Ends : HandleRequest(g)
    BY <1>1, ServerStep DEF TypeOK
  <2>2. /\ NextFrame(g).stub /\ NextFrame(g).body = c /\ NextFrame(g).id \in Nat
        /\ Owner[c] \in Ends /\ Peer[Owner[c]] = g
    <3>1. NextFrame(g).body = c
      <4>1. executed' = [executed EXCEPT ![NextFrame(g).body] = 1]
        BY <1>1, <2>1, ExecutesFirst
      <4>2. executed \in [Calls -> Nat]
        BY <1>1 DEF TypeOK
      <4> HIDE DEF InOrder, Frames
      <4>3. NextFrame(g).body # c => executed'[c] = executed[c]
        BY <4>1, <4>2
      <4>4. ~(executed[c] > executed[c])
        BY <4>2
      <4> QED
        BY <4>3, <4>4
    <3>2. Handle(g)
      BY <2>1 DEF HandleRequest
    <3> QED
      BY <1>1, <2>1, <3>1, <3>2, ExecutesFirst, HandleType, FrameTypes
  <2> DEFINE e == Owner[c]
             b == buffer[g]
             w == wire[g]
             q == writeQueue[e]
             l == b \o w \o q
  <2>3. /\ b \in Seq(Frame) /\ w \in Seq(Frame) /\ q \in Seq(Frame) /\ b # <<>>
        /\ Pipe(b, w, q) /\ Frames(c) = l
    BY <1>1, <2>1, <2>2, PipeTypes DEF OrderInv, PipeFrom, HandleRequest, Handle, InFlight
  <2>4. NextFrame(g) = Head(b)
    BY DEF NextFrame
  <2> HIDE DEF b, w, q
  <2>5. Ordered(l) /\ l \in Seq(Frame) /\ l[1] = Head(b) /\ Len(l) \in Nat
    <3>1. b \o w \in Seq(Frame) /\ Ordered(b \o w) /\ Elems(b \o w) = Elems(b) \cup Elems(w)
      BY <2>3, OrderedConcat, ElemsConcat, ConcatProperties DEF Pipe
    <3>2. Precedes(b \o w, q)
      BY <2>3, <3>1 DEF Pipe, Precedes
    <3>3. Ordered(l) /\ l \in Seq(Frame)
      BY <2>3, <3>1, <3>2, OrderedConcat, ConcatProperties DEF Pipe
    <3>4. l[1] = Head(b)
      BY <2>3, <3>1, ConcatProperties, HeadTailProperties, LenProperties, EmptySeq
    <3> QED
      BY <3>3, <3>4, LenProperties
  <2> HIDE DEF l
  <2>6. l[j].stub /\ l[j].body = c /\ l[i].stub /\ i \in 1..Len(l) /\ j \in 1..Len(l)
    BY <2>3
  <2> HIDE DEF Frames
  <2>7. l[1].stub /\ l[1].body = c /\ l[1].id \in Nat /\ 1 \in 1..Len(l)
    BY <2>2, <2>4, <2>5, <2>6
  <2>8. j = 1
    <3>1. ~(1 < j)
      BY <2>5, <2>6, <2>7 DEF Ordered, Before
    <3> QED
      BY <2>6, <3>1
  <2>9. i = 1 \/ l[1].id < l[i].id
    <3>1. 1 < i => Before(l[1], l[i])
      BY <2>5, <2>6, <2>7 DEF Ordered
    <3> QED
      BY <2>6, <2>7, <3>1 DEF Before
  <2>10. l[i].id \in Nat
    BY <2>5, <2>6, ElementOfSeq, FrameTypes
  <2>11. l[i].id >= l[j].id
    BY <2>7, <2>8, <2>9, <2>10
  <2> QED
    BY <2>3, <2>11
<1>2. TypeOK /\ FrameInv /\ OrderInv /\ [Next]_vars => [InOrder]_vars
  BY <1>1
<1>3. ServedInOrder <=> [][InOrder]_vars
  BY DEF ServedInOrder
<1> QED
  BY <1>2, <1>3, OrderInvCorrect, FrameInvCorrect, TypeCorrect, PTL DEF Spec

-----------------------------------------------------------------------------
(* The refinement of RpcCalls: every step is one of its steps or changes   *)
(* nothing that its users see.                                             *)

callsSeen == <<connected, outcome, executed>>

LEMMA ConnectionStep ==
  ASSUME SchedulerInv, [Next]_vars
  PROVE  connected' = connected \/ \E e \in Ends : connected[e] /\ Close(e)
<1> USE DEF serverVars, linkVars, readVars, userVars
<1>1. CASE UNCHANGED vars
  BY <1>1 DEF vars
<1>2. ASSUME NEW e \in Ends, Disconnected(e)
      PROVE  connected[e] /\ Close(e)
  BY <1>2 DEF Disconnected, SchedulerInv
<1>3. ASSUME NEW e \in Ends, NEW c \in Calls, UserCall(e, c) \/ Answer(e, c)
      PROVE  connected' = connected
  BY <1>3 DEF UserCall, CallDisconnected, CallMethod, CallMethodFails, Answer, TcpClosureRun
<1>4. ASSUME NEW e \in Ends, OnTimer(e)
      PROVE  connected' = connected
  BY <1>4 DEF OnTimer, LackData, RejectRequest, ServiceNotImplement, HandleRequest, HandleReply, Handle,
              TimerReturn
<1>5. ASSUME NEW e \in Ends, OnRead(e) \/ AfterWrite(e) \/ KernelWrite(e) \/ Reset(e)
      PROVE  connected' = connected
  BY <1>5 DEF OnRead, AfterWrite, AfterSendRequest, AfterSendResponse, KernelWrite, Flush, FlushError, Reset
<1> QED
  BY <1>1, <1>2, <1>3, <1>4, <1>5 DEF Next, UserClose, Terminated

(* The end of a connection cancels exactly the calls that wait on it.      *)
LEMMA CloseImplements ==
  ASSUME TypeOK, CallInv, NEW e \in Ends, connected[e], Close(e)
  PROVE  Promise!Disconnect(e)
<1>1. \A c \in Calls : (\E ctx \in asyncResult[e] : ctx.call = c) <=> Owner[c] = e /\ outcome[c] = "pending"
  BY DEF CallInv, OneContextPerCall, WaitsIffRegistered
<1>2. outcome' = [c \in Calls |-> IF Owner[c] = e /\ outcome[c] = "pending" THEN "canceled" ELSE outcome[c]]
  BY <1>1 DEF Close, CancelWaiting
<1> QED
  BY <1>2 DEF Close, Promise!Disconnect

LEMMA CallImplements ==
  ASSUME TypeOK, NEW e \in Ends, NEW c \in Calls, UserCall(e, c)
  PROVE  Promise!Begin(c)
BY DEF UserCall, CallDisconnected, CallMethod, CallMethodFails, RunDone, Promise!Begin

LEMMA ExecutionImplements ==
  ASSUME TypeOK, FrameInv, OrderInv, NEW g \in Ends, HandleRequest(g)
  PROVE  \E c \in Calls : Promise!Execute(c)
<1> DEFINE c == NextFrame(g).body
<1>1. /\ c \in Calls /\ outcome[c] # "idle" /\ executed[c] = 0
      /\ executed' = [executed EXCEPT ![c] = 1]
  BY ExecutesFirst
<1>2. UNCHANGED <<connected, outcome>>
  BY DEF HandleRequest, Handle, userVars
<1> QED
  BY <1>1, <1>2 DEF Promise!Execute

(* A call that waits ends with the reply of its execution, or because its  *)
(* one-way request has gone, or with an error.                             *)
LEMMA EndImplements ==
  ASSUME TypeOK, CallInv, FrameInv, OrderInv, EndsOneCall, UNCHANGED <<connected, executed>>
  PROVE  UNCHANGED callsSeen \/ \E c \in Calls, o \in {"replied", "failed", "sent"} : Promise!Finish(c, o)
<1>1. PICK e \in Ends, i \in Nat, o \in Ended, b \in Calls \cup {None, Echo} :
        HandleResponse(e, i, o, b) /\ EndCause(e, i, o, b)
  BY DEF EndsOneCall
<1>2. CASE UNCHANGED userVars
  BY <1>2 DEF userVars, callsSeen
<1>3. ASSUME NEW ctx \in asyncResult[e], ctx.id = i, RunDone(ctx.call, o, b)
      PROVE  \E c \in Calls, p \in {"replied", "failed", "sent"} : Promise!Finish(c, p)
  <2> DEFINE c == ctx.call
  <2>1. c \in Calls /\ Owner[c] = e /\ outcome[c] = "pending"
    BY DEF TypeOK, Context, CallInv, OneContextPerCall, WaitsIffRegistered
  <2>2. outcome' = [outcome EXCEPT ![c] = o]
    BY <1>3 DEF RunDone
  <2>3. CASE o = "replied"
    <3>1. Handle(e) /\ ~NextFrame(e).stub /\ ~NextFrame(e).failed /\ NextFrame(e).id = i
      BY <1>1, <2>3 DEF EndCause
    <3>2. FrameOK(Peer[e], NextFrame(e)) /\ Peer[Peer[e]] = e /\ NextFrame(e).body \in Calls
      BY <3>1, NextFrameSent, PeerFacts, HandleType, FrameTypes DEF FrameInv
    <3>3. c = NextFrame(e).body /\ c \notin Notify /\ executed[c] > 0
      BY <1>3, <3>1, <3>2 DEF FrameOK, Known
    <3>4. executed[c] = 1
      <4> HIDE DEF c
      <4> QED
        BY <2>1, <3>3 DEF OrderInv, TypeOK
    <3> QED
      BY <2>1, <2>2, <2>3, <3>3, <3>4 DEF Promise!Finish
  <2>4. CASE o = "sent"
    <3>1. written[e] # <<>> /\ Head(written[e]).frame.stub /\ Head(written[e]).frame.id = i
          /\ Head(written[e]).frame.body \in Notify
      BY <1>1, <2>4 DEF EndCause
    <3>2. Head(written[e]).frame \in Sent(e)
      BY <3>1, ElemsHeadTail DEF Sent, TypeOK
    <3>3. c = Head(written[e]).frame.body
      BY <1>3, <3>1, <3>2 DEF FrameInv, FrameOK, Known
    <3> QED
      BY <2>1, <2>2, <2>4, <3>1, <3>3 DEF Promise!Finish
  <2>5. CASE o = "failed"
    BY <2>1, <2>2, <2>5 DEF Promise!Finish
  <2> QED
    BY <1>1, <2>3, <2>4, <2>5 DEF EndCause
<1> QED
  BY <1>1, <1>2, <1>3 DEF HandleResponse

LEMMA StepImplements ==
  ASSUME TypeOK, CallInv, FrameInv, OrderInv, SchedulerInv, CloseInv, [Next]_vars
  PROVE  [Promise!Next]_callsSeen
<1>1. ASSUME NEW e \in Ends, connected[e], Close(e)
      PROVE  Promise!Next
  BY <1>1, CloseImplements DEF Promise!Next
<1>2. ASSUME NEW g \in Ends, HandleRequest(g)
      PROVE  Promise!Next
  BY <1>2, ExecutionImplements DEF Promise!Next
<1>3. CASE UNCHANGED <<connected, executed>>
  <2>1. CASE UNCHANGED callVars
    BY <1>3, <2>1 DEF callVars, userVars, callsSeen
  <2>2. CASE EndsOneCall
    BY <1>3, <2>2, EndImplements DEF Promise!Next
  <2>3. ASSUME NEW e \in Ends, NEW c \in Calls, UserCall(e, c)
        PROVE  Promise!Next
    BY <2>3, CallImplements DEF Promise!Next
  <2>4. ASSUME NEW e \in Ends, Close(e)
        PROVE  UNCHANGED callsSeen
    <3>1. connected'[e] = FALSE
      BY <2>4 DEF Close, TypeOK
    <3>2. asyncResult[e] = {}
      BY <1>3, <3>1 DEF CloseInv
    <3>3. outcome' = outcome
      BY <2>4, <3>2 DEF Close, CancelWaiting, TypeOK
    <3> QED
      BY <1>3, <3>3 DEF callsSeen
  <2> QED
    BY <2>1, <2>2, <2>3, <2>4, StepOnCalls
<1> QED
  BY <1>1, <1>2, <1>3, ConnectionStep, ServerStep

(* TcpChannel implements RpcCalls: its users see calls that end once, with *)
(* the reply of an execution or an error, and connections that take with   *)
(* them what waits.                                                        *)
THEOREM KeepsThePromise == Spec => ImplementsRpcCalls
<1>1. Init => Promise!Init
  BY DEF Init, Promise!Init
<1>2. TypeOK /\ CallInv /\ FrameInv /\ OrderInv /\ SchedulerInv /\ CloseInv /\ [Next]_vars
      => [Promise!Next]_(Promise!vars)
  BY StepImplements DEF callsSeen, Promise!vars
<1> QED
  BY <1>1, <1>2, TypeCorrect, CallInvCorrect, FrameInvCorrect, OrderInvCorrect, SchedulerInvCorrect,
     CloseInvCorrect, PTL
     DEF Spec, ImplementsRpcCalls, Promise!Spec

=============================================================================
