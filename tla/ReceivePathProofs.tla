-------------------------- MODULE ReceivePathProofs -------------------------
(* Proofs about ReceivePath, for any stream, any limit and any way of      *)
(* cutting the stream into reads.                                          *)
EXTENDS ReceivePath, SequenceTheorems, TLAPS

(* A buffer whose pointers are in order and inside its memory.             *)
WellFormed(b) ==
  /\ b.size \in Nat /\ b.start \in Nat /\ b.end \in Nat
  /\ b = [mem |-> b.mem, size |-> b.size, start |-> b.start, end |-> b.end]
  /\ b.start <= b.end /\ b.end <= b.size
  /\ DOMAIN b.mem = 0..b.size - 1

SizeBound == 2 * (Suggested + Header + MaxSize)

(* The loop of Expend stops at a size with room, less than twice of what   *)
(* is wanted.                                                              *)
LEMMA GrownSizesBounded ==
  ASSUME NEW size \in Nat, NEW want \in Nat, size < want, NEW n \in GrownSizes(size, want)
  PROVE  n \in Nat /\ want <= n /\ n <= 2 * want + 1
<1>1. PICK p \in 1..want + 2 : n = (size + 2) * p - 2 /\ (p > 1 => (size + 2) * p < 2 * (want + 2))
  BY DEF GrownSizes
<1>2. n \in want..(2 * want + size)
  BY DEF GrownSizes
<1>3. CASE p = 1
  BY <1>1, <1>2, <1>3
<1>4. CASE p > 1
  <2> DEFINE q == (size + 2) * p
  <2>1. q \in Int /\ n = q - 2 /\ q < 2 * (want + 2)
    BY <1>1, <1>4
  <2> HIDE DEF q
  <2> QED
    BY <1>2, <2>1
<1> QED
  BY <1>1, <1>3, <1>4

(* Moving keeps the unread bytes, in memory of any size they fit in.       *)
LEMMA MovedKeepsBytes ==
  ASSUME NEW b, WellFormed(b), NEW n \in Nat, Used(b) <= n
  PROVE  LET r == Moved(b, n) IN
           /\ WellFormed(r) /\ r.size = n /\ Used(r) = Used(b)
           /\ \A i \in Nat : i < Used(b) => r.mem[r.start + i] = b.mem[b.start + i]
BY DEF Moved, WellFormed, Used

(* Whatever Expend does, the buffer stays in order, no unread byte changes *)
(* and the memory does not outgrow one partial frame and one read.         *)
LEMMA ExpendKeepsBytes ==
  ASSUME NEW b, WellFormed(b), Used(b) < Header + MaxSize, b.size <= SizeBound, NEW r \in Expend(b)
  PROVE  /\ WellFormed(r) /\ Used(r) = Used(b) /\ r.size <= SizeBound
         /\ \A i \in Nat : i < Used(b) => r.mem[r.start + i] = b.mem[b.start + i]
<1> USE StreamAssumption DEF StreamAssumption
<1>0. Used(b) \in Nat /\ Used(b) <= b.size /\ b.size \in Nat
  BY DEF WellFormed, Used
<1>1. CASE r = b
  BY <1>1
<1>2. CASE r = Moved(b, b.size)
  BY <1>0, <1>2, MovedKeepsBytes
<1>3. CASE /\ b.size - Used(b) < Suggested
           /\ \E n \in GrownSizes(b.size, Suggested + Used(b)) : r = Moved(b, n)
  <2>1. PICK n \in GrownSizes(b.size, Suggested + Used(b)) : r = Moved(b, n)
    BY <1>3
  <2>2. b.size < Suggested + Used(b)
    BY <1>0, <1>3
  <2>3. n \in Nat /\ Suggested + Used(b) <= n /\ n <= 2 * (Suggested + Used(b)) + 1
    BY <1>0, <2>2, GrownSizesBounded
  <2>4. Used(b) <= n /\ n <= SizeBound
    BY <1>0, <2>3 DEF SizeBound
  <2> QED
    BY <2>1, <2>3, <2>4, MovedKeepsBytes
<1> QED
  BY <1>0, <1>1, <1>2, <1>3 DEF Expend

-----------------------------------------------------------------------------
(* Reading waits until no whole frame is left.                             *)
Drained ==
  /\ reading => open /\ Used(buf) < Header + MaxSize
  /\ Used(buf) <= received

LEMMA Sizes ==
  /\ Header \in Nat \ {0} /\ MaxSize \in Nat /\ Suggested \in Nat \ {0}
  /\ Length \in Nat /\ FrameCount \in Nat
  /\ \A p \in 0..Length : SizeAt[p] \in Int
<1>1. Header \in Nat \ {0} /\ MaxSize \in Nat /\ Suggested \in Nat \ {0} /\ FrameCount \in Nat
  BY StreamAssumption DEF StreamAssumption
<1>2. Length \in Nat
  BY <1>1, StreamAssumption DEF StreamAssumption, Length
<1>3. SizeAt \in [0..Length -> Int]
  BY StreamAssumption DEF StreamAssumption, Length
<1> QED
  BY <1>1, <1>2, <1>3

IInv ==
  /\ TypeOK
  /\ InBounds
  /\ (reading \/ timer) => open
  /\ BytesInOrder
  /\ Drained
  /\ SizeBounded
  /\ InStep

LEMMA ReadStep == IInv /\ OnRead => IInv'
<1> SUFFICES ASSUME IInv, OnRead PROVE IInv'
  OBVIOUS
<1>1. PICK b \in Expend(buf), n \in 1..Length - received :
        /\ n <= Space(b)
        /\ buf' = [b EXCEPT !.mem = [i \in DOMAIN b.mem |->
                                       IF b.end <= i /\ i < b.end + n
                                       THEN received + (i - b.end) ELSE b.mem[i]],
                            !.end = b.end + n]
        /\ received' = received + n
  BY DEF OnRead
<1>2. /\ reading' = FALSE /\ timer' = TRUE /\ open /\ open'
      /\ UNCHANGED <<handled, dropped>>
  BY DEF OnRead, IInv
<1>3. WellFormed(buf) /\ Used(buf) < Header + MaxSize /\ buf.size <= SizeBound
  BY <1>2 DEF IInv, TypeOK, InBounds, WellFormed, Drained, OnRead, SizeBounded, SizeBound
<1>4. /\ WellFormed(b) /\ Used(b) = Used(buf) /\ b.size <= SizeBound
      /\ \A i \in Nat : i < Used(buf) => b.mem[b.start + i] = buf.mem[buf.start + i]
  BY <1>3, ExpendKeepsBytes
<1>5. Length \in Nat /\ received \in Nat /\ n \in Nat /\ received' \in 0..Length
  BY <1>1, Sizes DEF IInv, TypeOK
<1>6. /\ buf'.size = b.size /\ buf'.start = b.start /\ buf'.end = b.end + n
      /\ buf' = [mem |-> buf'.mem, size |-> b.size, start |-> b.start, end |-> b.end + n]
      /\ DOMAIN buf'.mem = 0..b.size - 1
      /\ \A i \in 0..b.size - 1 :
           buf'.mem[i] = IF b.end <= i /\ i < b.end + n THEN received + (i - b.end) ELSE b.mem[i]
  BY <1>1, <1>4 DEF WellFormed
<1>7. b.size \in Nat /\ b.start \in Nat /\ b.end \in Nat /\ b.start <= b.end /\ b.end + n <= b.size
  BY <1>1, <1>4, <1>5 DEF WellFormed, Space
<1>8. TypeOK'
  <2>1. buf'.size \in Nat /\ buf'.start \in Nat /\ buf'.end \in Nat
    BY <1>5, <1>6, <1>7
  <2>2. buf' = [mem |-> buf'.mem, size |-> buf'.size, start |-> buf'.start, end |-> buf'.end]
    BY <1>6
  <2> QED
    BY <1>2, <1>5, <2>1, <2>2 DEF IInv, TypeOK
<1>9. InBounds'
  BY <1>2, <1>5, <1>6, <1>7 DEF InBounds
<1>10. BytesInOrder'
  <2> SUFFICES ASSUME NEW i \in buf'.start..buf'.end - 1
               PROVE  buf'.mem[i] = received' - (buf'.end - i)
    BY DEF BytesInOrder
  <2>b. i \in Int /\ b.start <= i /\ i < b.end + n
    BY <1>5, <1>6, <1>7
  <2>0. buf.start \in Nat /\ buf.end \in Nat /\ b.end - b.start = buf.end - buf.start
    BY <1>4 DEF Used, IInv, TypeOK
  <2>a. i \in 0..b.size - 1
    BY <1>5, <1>7, <2>b
  <2>1. CASE i >= b.end
    <3>1. buf'.mem[i] = received + (i - b.end)
      BY <1>5, <1>6, <1>7, <2>1, <2>a, <2>b
    <3>2. (received + n) - ((b.end + n) - i) = received + (i - b.end)
      BY <1>5, <1>7, <2>b
    <3>3. received' = received + n /\ buf'.end = b.end + n
      BY <1>1, <1>6
    <3> QED
      BY <3>1, <3>2, <3>3
  <2>2. CASE i < b.end
    <3>1. buf'.mem[i] = b.mem[i]
      BY <1>6, <1>7, <2>2, <2>a
    <3> DEFINE j == i - b.start
    <3>2. j \in Nat /\ j < Used(buf) /\ b.start + j = i
      BY <1>7, <2>0, <2>2, <2>b DEF Used
    <3>3. b.mem[b.start + j] = buf.mem[buf.start + j]
      BY <1>4, <3>2
    <3>4. buf.start + j \in buf.start..buf.end - 1
      BY <2>0, <3>2 DEF Used
    <3> HIDE DEF j
    <3>5. buf.mem[buf.start + j] = received - (buf.end - (buf.start + j))
      BY <3>4 DEF IInv, BytesInOrder
    <3>6. (received + n) - ((b.end + n) - i) = received - (buf.end - (buf.start + j))
      BY <1>5, <1>7, <2>0, <2>b, <3>2
    <3>7. received' = received + n /\ buf'.end = b.end + n
      BY <1>1, <1>6
    <3> QED
      BY <3>1, <3>2, <3>3, <3>5, <3>6, <3>7
  <2> QED
    BY <1>7, <2>1, <2>2, <2>b
<1>11. SizeBounded'
  BY <1>4, <1>6 DEF SizeBounded, SizeBound
<1>a. Used(buf)' = Used(buf) + n /\ Used(buf) \in Nat
  <2>1. Used(b) = b.end - b.start /\ Used(buf)' = buf'.end - buf'.start
    BY DEF Used
  <2>2. Used(buf)' = (b.end + n) - b.start
    BY <1>6, <2>1
  <2>3. Used(b) \in Nat /\ Used(buf)' = Used(b) + n
    BY <1>5, <1>7, <2>1, <2>2
  <2> QED
    BY <1>4, <2>3
<1>12. InStep'
  <2>1. received' - Used(buf)' = received - Used(buf)
    BY <1>1, <1>5, <1>a
  <2> QED
    BY <1>2, <2>1 DEF IInv, InStep
<1>13. Drained'
  <2>1. Used(buf) <= received /\ received' = received + n
    BY <1>1 DEF IInv, Drained
  <2>2. Used(buf)' <= received'
    BY <1>5, <1>a, <2>1
  <2> QED
    BY <1>2, <2>2 DEF Drained
<1> QED
  BY <1>2, <1>8, <1>9, <1>10, <1>11, <1>12, <1>13 DEF IInv

(* The byte that Deserializer looks at first.                              *)
LEMMA NextBytePosition ==
  ASSUME IInv, HasHeader
  PROVE  /\ NextByte = received - Used(buf)
         /\ NextByte \in 0..Length
         /\ Used(buf) \in Nat
         /\ FrameSize \in Int
<1>1. Used(buf) \in Nat /\ Used(buf) > 0 /\ buf.start \in buf.start..buf.end - 1
  BY Sizes DEF HasHeader, Used, IInv, TypeOK, InBounds
<1>2. NextByte = received - (buf.end - buf.start)
  BY <1>1 DEF NextByte, IInv, BytesInOrder
<1>3. received \in 0..Length /\ Used(buf) <= received
  BY DEF IInv, TypeOK, Drained
<1>4. NextByte \in 0..Length /\ NextByte = received - Used(buf)
  BY <1>1, <1>2, <1>3, Sizes DEF Used
<1> QED
  BY <1>1, <1>4, Sizes DEF FrameSize

LEMMA TakeStep == IInv /\ TakeFrame => IInv'
<1> SUFFICES ASSUME IInv, TakeFrame PROVE IInv'
  OBVIOUS
<1> DEFINE m == Header + FrameSize
<1>1. /\ NextByte = received - Used(buf) /\ NextByte \in 0..Length
      /\ Used(buf) \in Nat /\ FrameSize \in Nat
      /\ m <= Used(buf) /\ m \in Nat /\ m > 0
  <2>1. HasHeader /\ ~OutOfSize /\ m <= Used(buf)
    BY DEF TakeFrame, HasFrame
  <2>2. FrameSize \in Int /\ Used(buf) \in Nat
    BY <2>1, NextBytePosition
  <2>3. FrameSize \in Nat
    BY <2>1, <2>2 DEF OutOfSize
  <2> QED
    BY <2>1, <2>3, NextBytePosition, Sizes
<1>3. buf.size \in Nat /\ buf.start \in Nat /\ buf.end \in Nat /\ buf.start <= buf.end
  BY DEF IInv, TypeOK, InBounds
<1>a. buf.start + Header + FrameSize = buf.start + m
  BY <1>1, <1>3, Sizes
<1>2. /\ buf' = [buf EXCEPT !.start = buf.start + m]
      /\ handled' = Append(handled, [at |-> NextByte, parsed |-> NextByte \in Parses])
      /\ UNCHANGED <<received, dropped, reading, timer, open>>
      /\ timer
  <2>1. buf' = [buf EXCEPT !.start = buf.start + Header + FrameSize]
    BY DEF TakeFrame
  <2> QED
    BY <1>a, <2>1 DEF TakeFrame
<1> HIDE DEF m
<1>4. /\ buf'.mem = buf.mem /\ buf'.size = buf.size /\ buf'.end = buf.end
      /\ buf'.start = buf.start + m
      /\ buf' = [mem |-> buf.mem, size |-> buf.size, start |-> buf.start + m, end |-> buf.end]
  BY <1>2, <1>3 DEF IInv, TypeOK
<1>5. Used(buf)' = Used(buf) - m
  BY <1>1, <1>3, <1>4 DEF Used
<1>6. TypeOK'
  <2>1. [at |-> NextByte, parsed |-> NextByte \in Parses] \in [at : 0..Length, parsed : BOOLEAN]
    BY <1>1
  <2>2. handled' \in Seq([at : 0..Length, parsed : BOOLEAN])
    BY <1>2, <2>1, AppendProperties DEF IInv, TypeOK
  <2>3. buf'.size \in Nat /\ buf'.start \in Nat /\ buf'.end \in Nat
    BY <1>1, <1>3, <1>4
  <2>4. buf' = [mem |-> buf'.mem, size |-> buf'.size, start |-> buf'.start, end |-> buf'.end]
    BY <1>4
  <2> QED
    BY <1>2, <2>2, <2>3, <2>4 DEF IInv, TypeOK
<1>7. InBounds'
  BY <1>1, <1>2, <1>3, <1>4 DEF IInv, InBounds, Used
<1>8. BytesInOrder'
  <2>1. \A i \in buf'.start..buf'.end - 1 : i \in buf.start..buf.end - 1
    BY <1>1, <1>3, <1>4
  <2> QED
    BY <1>2, <1>4, <2>1 DEF IInv, BytesInOrder
<1>9. Drained'
  <2>1. Used(buf) <= received /\ received \in Nat
    BY Sizes DEF IInv, Drained, TypeOK
  <2>2. Used(buf)' <= received'
    BY <1>1, <1>2, <1>5, <2>1
  <2>3. reading' => open' /\ Used(buf)' < Header + MaxSize
    BY <1>1, <1>2, <1>5, Sizes DEF IInv, Drained
  <2> QED
    BY <2>2, <2>3 DEF Drained
<1>10. SizeBounded'
  BY <1>4 DEF IInv, SizeBounded
<1>11. InStep'
  <2> SUFFICES ASSUME ~dropped, open PROVE InStep'
    BY <1>2 DEF InStep
  <2> DEFINE k == Len(handled) + 1
  <2>1. /\ k <= FrameCount + 1
        /\ received - Used(buf) = At[k]
        /\ \A j \in 1..k - 1 : handled[j].at = At[j]
    BY DEF IInv, InStep
  <2>2. Len(handled) \in Nat /\ k \in Nat
    BY LenProperties DEF IInv, TypeOK
  <2>3. k # FrameCount + 1
    BY <1>1, <2>1 DEF IInv, TypeOK, Length
  <2>4. k \in 1..FrameCount
    BY <2>1, <2>2, <2>3, Sizes
  <2>5. At[k + 1] = At[k] + Header + SizeAt[At[k]]
    BY <2>4, StreamAssumption DEF StreamAssumption
  <2>6. NextByte = At[k] /\ FrameSize = SizeAt[At[k]]
    BY <1>1, <2>1 DEF FrameSize
  <2>7. /\ Len(handled') = Len(handled) + 1
        /\ \A j \in 1..Len(handled) : handled'[j] = handled[j]
        /\ handled'[k] = [at |-> NextByte, parsed |-> NextByte \in Parses]
    <3>1. [at |-> NextByte, parsed |-> NextByte \in Parses] \in [at : 0..Length, parsed : BOOLEAN]
      BY <1>1
    <3> QED
      BY <1>2, <3>1, AppendProperties DEF IInv, TypeOK
  <2>8. received' - Used(buf)' = At[k + 1]
    <3>1. received \in Nat
      BY Sizes DEF IInv, TypeOK
    <3>2. At[k] \in Int
      BY <1>1, <2>1, <3>1
    <3>3. At[k + 1] = At[k] + Header + FrameSize
      BY <2>5, <2>6
    <3>4. At[k + 1] = At[k] + m
      BY <1>1, <3>2, <3>3, Sizes DEF m
    <3> QED
      BY <1>1, <1>2, <1>5, <2>1, <3>1, <3>2, <3>4
  <2>9. \A j \in 1..k : handled'[j].at = At[j]
    <3>1. handled'[k].at = At[k]
      BY <2>6, <2>7
    <3>2. \A j \in 1..k : j = k \/ j \in 1..Len(handled)
      BY <2>2
    <3> QED
      BY <2>1, <2>2, <2>7, <3>1, <3>2
  <2>10. Len(handled') + 1 = k + 1
    BY <2>7
  <2> QED
    BY <2>2, <2>4, <2>8, <2>9, <2>10, Sizes DEF InStep
<1> QED
  BY <1>2, <1>6, <1>7, <1>8, <1>9, <1>10, <1>11 DEF IInv

LEMMA DropStep == IInv /\ DropOutOfSize => IInv'
<1> SUFFICES ASSUME IInv, DropOutOfSize PROVE IInv'
  OBVIOUS
<1>1. /\ buf' = [buf EXCEPT !.start = buf.end]
      /\ dropped' = TRUE
      /\ UNCHANGED <<received, handled, reading, timer, open>>
  BY DEF DropOutOfSize
<1>2. buf.size \in Nat /\ buf.start \in Nat /\ buf.end \in Nat /\ buf.start <= buf.end
  BY DEF IInv, TypeOK, InBounds
<1>3. /\ buf'.mem = buf.mem /\ buf'.size = buf.size /\ buf'.end = buf.end /\ buf'.start = buf.end
      /\ buf' = [mem |-> buf.mem, size |-> buf.size, start |-> buf.end, end |-> buf.end]
  BY <1>1 DEF IInv, TypeOK
<1>4. Used(buf)' = 0
  BY <1>2, <1>3 DEF Used
<1>5. TypeOK'
  BY <1>1, <1>2, <1>3 DEF IInv, TypeOK
<1>6. InBounds' /\ BytesInOrder' /\ SizeBounded' /\ InStep'
  BY <1>1, <1>2, <1>3 DEF IInv, InBounds, BytesInOrder, SizeBounded, InStep
<1>7. Drained'
  BY <1>1, <1>4, Sizes DEF IInv, Drained, TypeOK
<1> QED
  BY <1>1, <1>5, <1>6, <1>7 DEF IInv

LEMMA LackStep == IInv /\ LackData => IInv'
<1> SUFFICES ASSUME IInv, LackData PROVE IInv'
  OBVIOUS
<1>1. timer' = FALSE /\ reading' = TRUE /\ open /\ UNCHANGED <<buf, received, handled, dropped, open>>
  BY DEF LackData, IInv
<1>2. Used(buf) < Header + MaxSize
  <2>1. Used(buf) \in Nat
    BY DEF IInv, TypeOK, InBounds, Used
  <2>2. CASE ~HasHeader
    BY <2>1, <2>2, Sizes DEF HasHeader
  <2>3. CASE HasHeader /\ ~OutOfSize /\ ~HasFrame
    <3>1. FrameSize \in Int
      BY <2>3, NextBytePosition
    <3> QED
      BY <2>1, <2>3, <3>1, Sizes DEF OutOfSize, HasFrame
  <2> QED
    BY <2>2, <2>3 DEF LackData
<1>3. TypeOK' /\ InBounds' /\ BytesInOrder' /\ SizeBounded' /\ InStep'
  BY <1>1 DEF IInv, TypeOK, InBounds, BytesInOrder, SizeBounded, InStep, Used
<1> QED
  BY <1>1, <1>2, <1>3 DEF IInv, Drained, Used

LEMMA CloseStep == IInv /\ Close => IInv'
<1> SUFFICES ASSUME IInv, Close PROVE IInv'
  OBVIOUS
<1>1. /\ open' = FALSE /\ reading' = FALSE /\ timer' = FALSE
      /\ buf' = [mem |-> NoMemory, size |-> buf.size, start |-> 0, end |-> 0]
      /\ UNCHANGED <<received, handled, dropped>>
  BY DEF Close
<1>2. /\ buf'.mem = NoMemory /\ buf'.size = buf.size /\ buf'.start = 0 /\ buf'.end = 0
  BY <1>1
<1>3. TypeOK'
  BY <1>1, <1>2 DEF IInv, TypeOK
<1>4. InBounds' /\ BytesInOrder' /\ SizeBounded' /\ InStep'
  BY <1>1, <1>2 DEF IInv, InBounds, BytesInOrder, SizeBounded, InStep
<1>5. Drained'
  BY <1>1, <1>2 DEF IInv, Drained, TypeOK, Used
<1> QED
  BY <1>1, <1>3, <1>4, <1>5 DEF IInv

LEMMA IInvCorrect == Spec => []IInv
<1>1. Init => IInv
  <2> SUFFICES ASSUME Init PROVE IInv
    OBVIOUS
  <2>1. /\ buf.mem = NoMemory /\ buf.size = 0 /\ buf.start = 0 /\ buf.end = 0
        /\ buf = [mem |-> NoMemory, size |-> 0, start |-> 0, end |-> 0]
        /\ received = 0 /\ handled = <<>> /\ ~dropped /\ reading /\ ~timer /\ open
        /\ dropped \in BOOLEAN /\ reading \in BOOLEAN /\ timer \in BOOLEAN /\ open \in BOOLEAN
    BY DEF Init
  <2>2. TypeOK
    BY <2>1, Sizes DEF TypeOK
  <2>3. DOMAIN buf.mem = 0..buf.size - 1
    BY <2>1 DEF NoMemory
  <2>4. InBounds /\ BytesInOrder
    BY <2>1, <2>3 DEF InBounds, BytesInOrder
  <2>5. Drained /\ SizeBounded
    BY <2>1, Sizes DEF Drained, SizeBounded, Used
  <2>6. InStep
    BY <2>1, Sizes, StreamAssumption DEF InStep, Used, StreamAssumption
  <2> QED
    BY <2>1, <2>2, <2>4, <2>5, <2>6 DEF IInv
<1>2. IInv /\ [Next]_vars => IInv'
  <2> SUFFICES ASSUME IInv, [Next]_vars PROVE IInv'
    OBVIOUS
  <2>1. CASE UNCHANGED vars
    BY <2>1 DEF vars, IInv, TypeOK, InBounds, BytesInOrder, Drained, SizeBounded, InStep, Used
  <2> QED
    BY <2>1, ReadStep, TakeStep, DropStep, LackStep, CloseStep
       DEF Next, OnReadError, UserClose, Busy, Closed
<1> QED
  BY <1>1, <1>2, PTL DEF Spec

(* The CHECKs of Expend and Deserializer never fail, and libuv is given    *)
(* memory that is there.                                                   *)
THEOREM PointersStayInBounds == Spec => []InBounds
<1>1. IInv => InBounds
  BY DEF IInv
<1> QED
  BY <1>1, IInvCorrect, PTL

(* No unread byte is lost, repeated or moved out of order.                 *)
THEOREM BytesKeepTheirOrder == Spec => []BytesInOrder
<1>1. IInv => BytesInOrder
  BY DEF IInv
<1> QED
  BY <1>1, IInvCorrect, PTL

(* Every frame is taken whole and in order, however it arrives, until one  *)
(* is above the limit.                                                     *)
THEOREM FramesStayInStep == Spec => []InStep
<1>1. IInv => InStep
  BY DEF IInv
<1> QED
  BY <1>1, IInvCorrect, PTL

(* The buffer needs room for one partial frame and one read at most.       *)
THEOREM BufferIsBounded == Spec => []SizeBounded
<1>1. IInv => SizeBounded
  BY DEF IInv
<1> QED
  BY <1>1, IInvCorrect, PTL

(* The types of the buffer, the scheduler and what was handled.            *)
THEOREM TypeCorrect == Spec => []TypeOK
<1>1. IInv => TypeOK
  BY DEF IInv
<1> QED
  BY <1>1, IInvCorrect, PTL

(* The receiver throws bytes away only when a frame above the limit is     *)
(* next, never because of how frames were cut into reads.                  *)
THEOREM OnlyOversizeIsDropped == Spec => DropsOnlyOversize
<1>1. ASSUME IInv, [Next]_vars, dropped', ~dropped
      PROVE  LET k == Len(handled) + 1 IN k <= FrameCount /\ SizeAt[At[k]] > MaxSize
  <2> DEFINE k == Len(handled) + 1
  <2>1. DropOutOfSize
    BY <1>1 DEF Next, vars, OnRead, OnReadError, UserClose, Close, LackData, TakeFrame, Busy, Closed
  <2>2. HasHeader /\ OutOfSize /\ open
    BY <1>1, <2>1 DEF DropOutOfSize, IInv
  <2>3. NextByte = received - Used(buf) /\ Used(buf) \in Nat /\ Used(buf) > 0
    BY <1>1, <2>2, NextBytePosition, Sizes DEF HasHeader
  <2>4. k <= FrameCount + 1 /\ received - Used(buf) = At[k] /\ k \in Nat /\ k >= 1
    BY <1>1, <2>2, LenProperties DEF IInv, InStep, TypeOK
  <2>5. k # FrameCount + 1
    BY <1>1, <2>3, <2>4, Sizes DEF IInv, TypeOK, Length
  <2>6. k \in 1..FrameCount
    BY <2>4, <2>5, Sizes
  <2>7. SizeAt[At[k]] >= 0
    BY <2>6, StreamAssumption DEF StreamAssumption
  <2>8. FrameSize = SizeAt[At[k]] /\ FrameSize \in Int
    BY <1>1, <2>2, <2>3, <2>4, NextBytePosition DEF FrameSize
  <2>9. SizeAt[At[k]] > MaxSize
    BY <2>2, <2>7, <2>8, Sizes DEF OutOfSize
  <2> QED
    BY <2>6, <2>9
<1>2. IInv /\ [Next]_vars =>
        [dropped' /\ ~dropped =>
           LET k == Len(handled) + 1 IN k <= FrameCount /\ SizeAt[At[k]] > MaxSize]_vars
  BY <1>1
<1> QED
  BY <1>2, IInvCorrect, PTL DEF Spec, DropsOnlyOversize

=============================================================================
