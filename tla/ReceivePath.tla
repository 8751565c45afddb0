---------------------------- MODULE ReceivePath ----------------------------
(***************************************************************************)
(* How bytes become frames on one connection: maid::Buffer (src/buffer.cc),*)
(* WireFormat::Deserializer (src/wire_format.cc) and the receive scheduler *)
(* of maid::TcpChannel that drives them (OnAlloc, OnRead, OnTimer).        *)
(*                                                                         *)
(* A byte is its position in the stream that the peer sends, a pointer is  *)
(* an offset from base_.  A frame is Header bytes that hold its size and   *)
(* then the serialized ControllerProto.                                    *)
(***************************************************************************)
EXTENDS Integers, Sequences

CONSTANTS
  Header,      \* sizeof(controller_size_nl)
  MaxSize,     \* CONTROLLERPROTO_MAX_SIZE
  Suggested,   \* the suggested_size that libuv passes to OnAlloc
  FrameCount,  \* how many frames the peer sends
  At,          \* At[k]: where frame k begins; At[FrameCount + 1] is the end
  SizeAt,      \* SizeAt[p]: what the Header bytes from position p decode to
  Parses,      \* the positions p at which a ControllerProto of SizeAt[p] parses
  MemoryFails  \* whether malloc and new may fail

StreamAssumption ==
  /\ Header \in Nat \ {0} /\ MaxSize \in Nat /\ Suggested \in Nat \ {0} /\ FrameCount \in Nat
  /\ At \in [1..FrameCount + 1 -> Nat]
  /\ SizeAt \in [0..At[FrameCount + 1] -> Int]
  /\ At[1] = 0
  /\ \A k \in 1..FrameCount :
       /\ At[k] \in 0..At[FrameCount + 1]
       /\ SizeAt[At[k]] >= 0
       /\ At[k + 1] = At[k] + Header + SizeAt[At[k]]
ASSUME StreamAssumption

VARIABLES
  buf,       \* buffer_: its memory, size_ and the offsets start and end
  received,  \* how many bytes of the stream have been read
  handled,   \* the frames handed to HandleRequest or HandleResponse
  dropped,   \* whether ERROR_OUT_OF_SIZE has thrown buffered bytes away
  reading,   \* between uv_read_start and uv_read_stop
  timer,     \* timer_handle_ is active
  open       \* stream_ # NULL

vars == <<buf, received, handled, dropped, reading, timer, open>>

Length == At[FrameCount + 1]
Junk == -1

TypeOK ==
  /\ buf.size \in Nat /\ buf.start \in Nat /\ buf.end \in Nat
  /\ buf = [mem |-> buf.mem, size |-> buf.size, start |-> buf.start, end |-> buf.end]
  /\ received \in 0..Length
  /\ handled \in Seq([at : 0..Length, parsed : BOOLEAN])
  /\ dropped \in BOOLEAN /\ reading \in BOOLEAN /\ timer \in BOOLEAN /\ open \in BOOLEAN

NoMemory == [i \in {} |-> Junk]

Init ==
  /\ buf = [mem |-> NoMemory, size |-> 0, start |-> 0, end |-> 0]
  /\ received = 0
  /\ handled = <<>>
  /\ dropped = FALSE
  /\ reading = TRUE
  /\ timer = FALSE
  /\ open = TRUE

-----------------------------------------------------------------------------
(* Buffer::Expend                                                          *)

(* Variants with a fault, for mutation checks, are marked as such here and *)
(* below.  Variant: the pointers are swapped.                              *)
UsedSwapped(b) == b.start - b.end

Used(b) == b.end - b.start

(* What Expend returns, in each of its four cases: the bytes after end.    *)
Space(b) == b.size - b.end

(* Variants: the bytes are copied from base_; end is left where it was.    *)
MovedFromBase(b, n) ==
  [mem |-> [i \in 0..n - 1 |-> IF i < Used(b) /\ i < b.size THEN b.mem[i] ELSE Junk],
   size |-> n, start |-> 0, end |-> Used(b)]

MovedKeepsEnd(b, n) ==
  [mem |-> [i \in 0..n - 1 |-> IF i < Used(b) THEN b.mem[b.start + i] ELSE Junk],
   size |-> n, start |-> b.end, end |-> Used(b)]

(* memmove of the unread bytes to the front of memory of n bytes.          *)
Moved(b, n) ==
  [mem |-> [i \in 0..n - 1 |-> IF i < Used(b) THEN b.mem[b.start + i] ELSE Junk],
   size |-> n, start |-> 0, end |-> Used(b)]

(* The loop new_size = (new_size + 1) << 1: size_ + 2 doubles until there  *)
(* is room for want bytes.                                                 *)
GrownSizes(size, want) ==
  {n \in want..(2 * want + size) :
     \E p \in 1..want + 2 :
       /\ \E k \in 0..want : p = 2^k
       /\ n = (size + 2) * p - 2
       /\ p > 1 => (size + 2) * p < 2 * (want + 2)}

(* Variant: read bytes are never reclaimed.                                *)
ExpendGrows(b) ==
  IF Space(b) >= Suggested THEN {b}
  ELSE {Moved(b, n) : n \in GrownSizes(b.size, Suggested + b.size)}

Expend(b) ==
  IF Space(b) >= Suggested THEN {b}
  ELSE IF b.size - Used(b) >= Suggested THEN {Moved(b, b.size)}
  ELSE {Moved(b, n) : n \in GrownSizes(b.size, Suggested + Used(b))}
         \cup IF MemoryFails THEN {b} ELSE {}

-----------------------------------------------------------------------------
(* buffer_.reset() at the end of Close: size_ stays.                       *)
Close ==
  /\ open' = FALSE
  /\ reading' = FALSE
  /\ timer' = FALSE
  /\ buf' = [mem |-> NoMemory, size |-> buf.size, start |-> 0, end |-> 0]
  /\ UNCHANGED <<received, handled, dropped>>

(* uv__read: OnAlloc, the kernel fills n bytes from end on, OnRead.        *)
OnRead ==
  /\ reading
  /\ \E b \in Expend(buf), n \in 1..Length - received :
       /\ n <= Space(b)
       /\ buf' = [b EXCEPT !.mem = [i \in DOMAIN b.mem |->
                                      IF b.end <= i /\ i < b.end + n
                                      THEN received + (i - b.end) ELSE b.mem[i]],
                           !.end = b.end + n]
       /\ received' = received + n
  /\ reading' = FALSE
  /\ timer' = TRUE
  /\ UNCHANGED <<handled, dropped, open>>

(* OnRead with nread < 0, which may come at any time: the connection is    *)
(* gone, or Expend had no room to give (UV_ENOBUFS).  The factory closes   *)
(* the channel.                                                            *)
OnReadError == reading /\ Close

(* User code closes the channel.                                           *)
UserClose == open /\ Close

-----------------------------------------------------------------------------
(* OnTimer: Handle, then the scheduler                                     *)

(* The position of the next frame and the size its header announces.       *)
NextByte == buf.mem[buf.start]
FrameSize == SizeAt[NextByte]

HasHeader == Header <= Used(buf)

(* Variants: a frame of exactly MaxSize is refused; a frame that ends      *)
(* exactly at end has to wait.                                             *)
OutOfSizeAtLimit == FrameSize < 0 \/ FrameSize >= MaxSize
HasFrameInside == HasHeader /\ FrameSize <= MaxSize /\ Header + FrameSize < Used(buf)

OutOfSize == FrameSize < 0 \/ FrameSize > MaxSize
HasFrame == HasHeader /\ ~OutOfSize /\ Header + FrameSize <= Used(buf)

(* ERROR_LACK_DATA: the timer stops and reading resumes.                   *)
LackData ==
  /\ timer
  /\ \/ ~HasHeader
     \/ HasHeader /\ ~OutOfSize /\ ~HasFrame
  /\ timer' = FALSE
  /\ reading' = TRUE
  /\ UNCHANGED <<buf, received, handled, dropped, open>>

(* ERROR_OUT_OF_SIZE: everything that is buffered is thrown away.          *)
DropOutOfSize ==
  /\ timer
  /\ HasHeader
  /\ OutOfSize
  /\ buf' = [buf EXCEPT !.start = buf.end]
  /\ dropped' = TRUE
  /\ UNCHANGED <<received, handled, reading, timer, open>>

(* Variant: start moves by the size of the message alone.                  *)
TakeMessage ==
  /\ timer
  /\ HasFrame
  /\ handled' = Append(handled, [at |-> NextByte, parsed |-> NextByte \in Parses])
  /\ buf' = [buf EXCEPT !.start = @ + FrameSize]
  /\ UNCHANGED <<received, dropped, reading, timer, open>>

(* A frame is taken and handled, even one that does not parse.             *)
TakeFrame ==
  /\ timer
  /\ HasFrame
  /\ handled' = Append(handled, [at |-> NextByte, parsed |-> NextByte \in Parses])
  /\ buf' = [buf EXCEPT !.start = @ + Header + FrameSize]
  /\ UNCHANGED <<received, dropped, reading, timer, open>>

(* ERROR_BUSY: no memory for the frame, which stays where it is.           *)
Busy ==
  /\ MemoryFails
  /\ timer
  /\ HasFrame
  /\ UNCHANGED vars

-----------------------------------------------------------------------------
(* A closed channel is at rest.                                            *)
Closed == ~open /\ UNCHANGED vars

Next ==
  \/ OnRead
  \/ OnReadError
  \/ UserClose
  \/ LackData
  \/ DropOutOfSize
  \/ TakeFrame
  \/ Busy
  \/ Closed

(* libuv runs a timer that is active, and memory comes back.  The peer     *)
(* need not send more, it may wait for an answer; nobody has to close the  *)
(* channel.                                                                *)
Fairness == WF_vars(LackData \/ DropOutOfSize \/ TakeFrame)

Spec == Init /\ [][Next]_vars
FairSpec == Spec /\ Fairness

-----------------------------------------------------------------------------
(* What makes the receive path correct                                     *)

(* The CHECKs of Expend and Deserializer (buffer.cc:11-12,                 *)
(* wire_format.cc:41) and the bounds of the memory that libuv writes to.   *)
InBounds ==
  /\ 0 <= buf.start /\ buf.start <= buf.end
  /\ open => buf.end <= buf.size /\ DOMAIN buf.mem = 0..buf.size - 1

(* Moving and growing the buffer loses, repeats and reorders no byte: the  *)
(* unread part of it is always the last part of what was received.         *)
BytesInOrder ==
  \A i \in buf.start..buf.end - 1 : buf.mem[i] = received - (buf.end - i)

(* However the stream is cut into reads, frames are taken one by one at    *)
(* their boundaries; only a frame above the limit can end that.            *)
InStep ==
  dropped \/ ~open \/
  LET k == Len(handled) + 1 IN
    /\ k <= FrameCount + 1
    /\ received - Used(buf) = At[k]
    /\ \A j \in 1..k - 1 : handled[j].at = At[j]

(* Nothing is thrown away until the next frame is one above the limit.     *)
DropsOnlyOversize ==
  [][dropped' /\ ~dropped =>
       LET k == Len(handled) + 1 IN k <= FrameCount /\ SizeAt[At[k]] > MaxSize]_vars

(* Reading waits until no whole frame is left, so one partial frame and    *)
(* one read bound the buffer however much the peer sends.                  *)
SizeBounded == buf.size <= 2 * (Suggested + Header + MaxSize)

(* A frame that has arrived is handled whether or not more follows, unless *)
(* the channel is closed.                                                  *)
ArrivedIsHandled ==
  \A k \in 1..FrameCount :
    received >= At[k + 1] ~> Len(handled) >= k \/ dropped \/ ~open

=============================================================================
