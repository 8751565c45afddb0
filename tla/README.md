# Verification of libmaid

libmaid is a protobuf RPC library: a C++ core on libuv (`src/src`), a gevent binding (`src/python`) and
a C# client (`src/net`). These modules model its core logic, TLC checks them on small instances, and TLAPS
proves the most important results for every value of the constants. Paths below are relative to the
repository; `channel.cc:219` means `src/src/channel.cc`, line 219 of the file as checked out.

## 1. Inventory

| part | state it keeps | operations | properties that make it correct |
|---|---|---|---|
| `TcpChannel` (channel.cc) | `stream_`, `transmit_id_`, `async_result_` (calls that wait), `router_controllers_` (requests being served), `timer_handle_`, whether the stream is read | `CallMethod`, `OnRead`, `OnTimer`/`Handle`, `HandleRequest`, `HandleResponse`, `AfterSendRequest`, `Close` | a call ends exactly once, with its own answer or an error; nothing is written on a closed channel; the receive scheduler never stops |
| `TcpClosure`, `Closure`, `GCClosure` (closure.cc) | the objects of one request | `Run`, `AfterSendResponse` | an answer is sent once, none after cancellation |
| `Buffer`, `WireFormat` (buffer.cc, wire_format.cc) | `base_`, `start`, `end`, `total` | `Expend`, `reset`, `Deserializer` | no pointer leaves the memory, no byte is lost or repeated, frames stay in step, the buffer stays bounded |
| `ChannelPool` (channel_pool.cc) | `channel_`, `redirect_channel_`, `channel_invalid_`, the prepare handle `gc_` | `AddChannel`, `RemoveChannel`, `channel`, `ChannelRedirect`, `RemoveRedirect`, `OnGC`, `Close` | a channel is deleted once, not while something points at it; lookups find live channels |
| `Acceptor`, `Connector` (channel_factory.cc) | `channel_`, `handle_`, `req_` | `Listen`, `OnAccept`, `Connect`, `OnConnect`, `Connected`, `Disconnected`, `Close` | factory, pool and channels agree on what is open; `req_` is freed once |
| `TcpClient`, `TcpServer` (base.cc) | the factories, the pool | `Connect`, `Listen`, `channel`, `Close` | closing in any phase of the loop is safe |
| `LocalMapRepoChannel`, `LocalListRepoChannel` (channel.cc) | services by descriptor, middleware in a list | `Insert`, `Append`, `CallMethod`, `Close` | an unknown service is answered; middleware is called in order |
| `Controller` (controller.cc) | the `ControllerProto`, a cancel callback | `StartCancel`, `SetFailed`, ownership of the proto | cancellation and failure are seen; every object of a request is freed once |
| generated messages and services (controller.pb.cc and its like, example/*/*.pb.cc) | has bits and fields | accessors, `Clear`, serialization, its size, parsing, `CallMethod` | a frame is as long as its prefix says; half a message is never served |
| Python `Channel` (python/maid/channel.py) | `_send_queue`, `_pending_request`, `_transmit_id`, two greenlets for each socket | `CallMethod`, `_handle*`, `_write`, `close` | a caller is woken once with its own answer; no call is lost; both greenlets go together |
| C# `Channel` (net/maid/maid/Channel.cs) | double read and write buffers, `proto_`, pending requests, reconnection | `CallMethod`, `Update`, `Read`, `Handle`, `Write`, `Connect`, `CloseConnection` | a callback gets its own answer; the streams stay whole across buffers and connections; nobody waits on a live connection for ever |
| `maid_default_loop`, `LogMiddleware`, the `Middleware` service, `deps`, example clients, tests | | | not modelled |

**Interactions.** A stub calls `TcpChannel::CallMethod`, which writes a frame through libuv. At the other end
`OnRead` fills the buffer and starts the timer; each tick of `OnTimer` takes one frame, so a request reaches
`LocalMapRepoChannel` and a service, whose `TcpClosure::Run` writes the answer, and an answer reaches
`HandleResponse`, which runs the user's done closure. A read error calls the factory's `Disconnected`, which
closes the channel (ending its calls and canceling its requests) and removes it from the pool, whose `OnGC`
deletes it in the next prepare phase of the loop.

**What is hard.** All C++ runs in one thread, so the interleavings are those of callbacks: an answer, a write
callback and `Close` race for the same call; services answer late; user code closes things inside of callbacks;
libuv calls back writes of closed streams after the fact, with pointers that `OnGC` may have invalidated; TCP
cuts frames anywhere and loses what is buffered when it breaks. A request may be handed on to another server by a
redirect rule, with its objects. In Python the interleavings are those of greenlets; in C# those of the socket's
asynchronous operations with `Update`. There are no timeouts (`time_out` in options.proto is a TODO) and no retries; nothing is persisted.

## 2. Modules

| module | models | composed with |
|---|---|---|
| `RpcCalls` | the abstract promise of an `RpcChannel`: a call ends once, a reply needs an execution, at most one execution, a lost connection ends every waiting call | implemented by `TcpChannel`, and but for the last promise by `PythonChannel` (proved for both) |
| `TcpChannel` | two (or more) `TcpChannel`s joined by connections: calls, closures, answers, cancellation, the receive scheduler, write callbacks, failures | `MCTcpChannel`, `TcpChannelProofs`, `TcpChannelOrderProofs` |
| `ReceivePath` | one direction of a connection at the level of bytes: `OnAlloc`, `Expend`, `OnRead`, `OnTimer`, `Deserializer` | `MCReceivePath`, `ReceivePathProofs` |
| `ChannelPool` | the pool, the phases of the loop, and what points at a channel | extended by `Acceptor` and `TcpClient` |
| `Acceptor` | a server: connections come, serve, end, are closed | `MCAcceptor`, `AcceptorProofs` |
| `TcpClient` | a client: `Connector`s, `TcpClient::Close`, `ChannelPool::Close` | `MCTcpClient`, `TcpClientProofs` |
| `PythonChannel` | both ends of a connection in the Python binding | `MCPythonChannel`, `PythonChannelProofs` |
| `Message` | protoc's message classes: presence, defaults, `Set` and `Clear`, serialization and its size, parsing up to the first pair that does not parse; `ProtobufHelper::notify` | extended by `ExampleServices` |
| `ExampleServices` | `EchoService` and `HelloService`: their messages, prototypes, implementations | extended by `Dispatch` |
| `Dispatch` | what becomes of a request in a server: `Controller`, `TcpClosure` and the objects it owns, `HandleRequest` with its failures, `LocalMapRepoChannel`, the router that a redirect rule leads to another server | `MCDispatch`, `DispatchProofs` |
| `CSharpChannel` | the C# client with the server it connects to | `MCCSharpChannel`, `CSharpChannelProofs` |

### State and actions against the code

* **TcpChannel.** `asyncResult` is `async_result_`, `serving` is `router_controllers_` together with the closures
  that services hold, `reading`/`timer` are the two halves of the scheduler, `writeQueue` is libuv's queue of
  writes and `wire` the kernel's. Each action is one callback: `HandleReply` contains
  `HandleResponse` and the done closure; `Close` cancels what is served, ends what waits and drops the queue.
  An `OnTimer` that calls user code (a service or a done closure) takes two steps: it sets `handling`, user code at that
  end may then call, answer and close, while no other callback runs, and `TimerReturn` is `uv_timer_again`, which also
  starts a timer that `Close` has stopped meanwhile. `misuse` remembers such a close, and `crashed` that the next tick
  has given the NULL stream to `uv_read_start` (`LackData`); what the pool does with the channel in between is in
  `ChannelPool`. The done closures of a write callback and of `Close` are followed by user actions in the next step.
* **ReceivePath.** `start`, `end`, `total` are offsets into `memory`; a byte is its position in the stream, so that
  order can be stated without contents. A frame is the sizes its header tells.
* **ChannelPool, Acceptor, TcpClient.** A channel is its address; `object` says what the memory at an address holds,
  so that addresses can be used again. `phase` is the phase of the libuv iteration. `handling` is an `OnTimer` that
  has called user code and will touch the channel when it returns. `writing` and `canceled` are writes whose
  callbacks are to come, before and after the stream was closed. `fault` records the first access to something
  that is gone (or a failed CHECK), and `misuse` what user code has done that the library does not support.
* **PythonChannel.** An action is what one greenlet does between two switches. `close` is split where gevent may
  switch: after the other greenlet has been killed (`Kill`), before the socket is forgotten (`CloseSock`).
* **Message, ExampleServices.** A class is the sequence of its fields, a message the function from the fields that are
  present to their values, and its bytes the sequence of its fields with their values. `Write` is what
  `SerializeWithCachedSizes` does with a class in the order of its field numbers, `Readable` how far `MergePartialFromCodedStream` gets; the generated
  classes differ in nothing else, and how a value is encoded is left out. `SetMessage` and `MessageOf` are the `message`
  field of the four example classes, written in a response and read of a request.
* **Dispatch.** `heap[ch][c]` is the set of objects that exist of the request for call `c` that came in by channel `ch`,
  `holder` who has its closure: a service, the channel to another server, or libuv's write of the answer. `proto` is the
  message of its `Controller`. `DeletedOnce` says of a set of objects that `GCClosure` can free it, `NothingToBeDone`
  is the router's answer when the rule leads nowhere. `asyncResult` and `transmitId` are those of the calling ends. `router` is the
  `router_channel_` of the factory, which keeps what the pool has led to. `CutRequest` is the end of a frame that
  follows one that was dropped for its size, which the receiver reads as a frame.
* **CSharpChannel.** `pc` says which part of `Update` comes next; user code calls between updates and between `Handle`
  and `Write`, where callbacks run. `asyncRead`, `asyncWrite` and `asyncConnect` are the `IAsyncResult`s; `ReceiveDone`
  takes any piece of what is under way. `readBuffer` is a sequence of bytes, the write buffers are sequences of frames.

## 3. Runs

| run | instance | shows |
|---|---|---|
| `calls` | 2 ends, two calls one way and one the other, whose service is not inserted; sends, services and answers fail | type invariant; a call's done closure runs once; who waits is remembered, and only those; answers reach their own calls; services see a request at most once and in order; no write on a closed channel; the scheduler of an open channel is in exactly one state, that of a closed one at rest unless it was closed inside of `OnTimer` |
| `faults` | an answered call, a one-way call, a call of an unknown service; sends fail | the module implements `RpcCalls`; dropped requests end with the connection; every call that can be served ends |
| `receive` | eleven frames of every size up to the limit, one of them above it, cut into reads in every way; memory may run out | type invariant; pointers in bounds; bytes in order; frames in step up to the oversize one; the buffer bounded; only an oversize frame causes a drop; what arrived is handled |
| `server` | 2 addresses, unlimited connections one after the other | type invariant; nothing deleted is touched; lookups find open channels; factory, pool and channels agree; closed channels are remembered and in the end freed |
| `client` | 3 Connectors, 2 addresses, one `TcpClient::Close` in any phase | nothing deleted is touched, for a client that is closed when it is quiet; Connectors, pool and channels agree |
| `dispatch` | 2 callers, a server and one behind it; a call of a service, one of a service that is not there, a one-way call; one cut, one change of the redirect rule | types, and frames as long as they announce; every object of a request freed exactly once, under `Discipline`, and nothing written on a closed channel; an answer tells what the service did; half a request is never served |
| `python` | 2 ends, 2 + 1 calls, one of which may not parse, and a one-way call | type invariant, and waiters can be found; no call lost while the connection is whole; the queue outlives the greenlets; the promise of `RpcCalls` without cancellation; calls end; both ends go down together |
| `csharp` | 2 calls of one method, one of which fails, a one-way call, a call by the server; frames of two bytes and a receive buffer of two; one connection ended, broken or replaced, connects refused at will | type invariant; callbacks get their own answers; streams whole; nobody waits on a live connection for ever |

Four runs show the code to disagree with what the repository says:

* `notify`: options.proto requires `done == NULL` of one-way calls, `HandleResponse` runs it (channel.cc:322).
* `client_close`: example/hello/client.cpp closes its client in a done closure. `ChannelPool::Close` then deletes the
  channel in the call, and `OnTimer` goes on with `uv_timer_again` in freed memory (channel.cc:226).
* `dispatch_redirect`: a redirect rule for the router hands a request, with its controller, to the channel to another
  server. `HandleResponse` there replaces the controller's message by that of the second server (channel.cc:321), so the
  answer goes back with the transmit id of the second channel, and ends another call of the caller or none.
* `python_reply`: `if not controller.Failed:` (channel.py:79) tests a method, so a service's response is never sent; the
  caller gets the bytes of its own request, parsed as a response.

What the passing runs leave out is named by a constant or in the property. In `calls`, `SchedulerAlive` lets the timer
of a closed channel run, and read a NULL stream (channel.cc:219), if user code has closed it inside of `OnTimer`: the
model does so, as the code. In `dispatch`, `NothingLeaks` is stated under `Discipline`, which the run satisfies, and what
it states is violated without any of its parts: memory runs out only where the code copes, at the request, the response
and the closure (with `OutOfMemoryAt = {"insert"}` done is deleted after what it owns, channel.cc:291-294, with
`{"controller"}` the message leaks); cancel callbacks are permanent ones (`OneShot`: one that deletes itself is deleted
twice, controller.cc:16); and a caller does not go while its request is forwarded (`LeavesForwarded`: the second
channel's answer replaces the message that says `is_canceled`, and Run writes on a NULL stream). In `csharp`
`OwnAnswer` allows that a call after a failed one is sent, and answered, as failed, since the request is made in the
message of the last answer (Channel.cs:246); `CallsComplete` excludes connections that the server has ended, which
`Read` does not notice (Channel.cs:450), and a client that is in `Connect` on a live connection, where `EndReceive`
may wait for ever (Channel.cs:363).

**Why the bounds are enough.** Two calls of one end are the least that can be confused, and one of the other end
makes requests and answers share a direction; nothing in the code looks at more than two calls at once. Two
addresses let one be freed and used again while the other is open. Three Connectors allow a failed, a lost and a
pending connection together. The frames of `receive` have every size between an empty and a full frame, and every
cut of the stream into reads. In `dispatch` the two calls of one caller are what a wrong id can confuse, the other
caller shares only the router with it, and one cut and one change of the rule suffice since each acts on one request
or on the cached router. In `csharp` frames are of one byte of prefix and one of body, so the pieces end between and
inside of frames, but never inside of a prefix or a body; larger ones take too long there, and those cuts rest on the
theorem `StreamsKept`, which is for every size. One end of a connection gives two connections. The runs
of the state machines have no bound on steps.

**Fairness.** `TcpChannel`: libuv runs every callback that is due, the kernel takes what is written, and user code
that `OnTimer` calls returns and a service answers in the end (assumptions on user code). Calls, closes and broken connections are never required.
`ReceivePath`: a running timer fires, and memory that is
short comes back; the peer need not send anything more. `Acceptor`: `OnTimer` returns (weak), and the
loop goes round (strong: within one iteration other timers may come first again and again in the model, while in
libuv a timer that has just run is due a millisecond later, so the step to the prepare phase, enabled again and
again, is taken). `CSharpChannel`: the user goes on calling `Update`, a send or receive that can complete does, and the
server takes and answers what arrives; whether a connect succeeds is left open. `PythonChannel`: gevent's hub switches to greenlets that are ready, and a service returns.
Safety is checked and proved without any fairness.

## 4. Proofs

Assumed are only the constants' assumptions (`NobodyAssumption` and the like, which TLC evaluates in every run):
what peers, owners and limits are, that the "none" of a model is no call (`NoneAssumption`), that the name of a service
is not empty (`CallAssumption`). The proofs hold for any number of channels, calls, frames and addresses. Every invariant
and every action property of the passing runs that is not about fairness has its theorem.

* **TcpChannelProofs** (`TypeCorrect`, `DoneRunsOnce`, `NoContextLeaks`, `TransmitIdsUnique`, `RepliesMatchCalls`,
  `ClosedChannelsAreSilent`, `SchedulerNeverLost`). That an answer reaches its own call is not inductive: it needs
  that every frame in a write queue, on the wire, in a buffer and every request being served carries the id under
  which its call was registered at the other end, and that ids only grow. The invariant states this for all frames
  in flight; then done-once follows from the match between `async_result_` and the calls that wait.
  `SchedulerAlive` needs that an `OnTimer` that is running has an active timer on an open channel, and that the buffer of a
  closed channel is empty, so that a timer which was started again finds nothing to handle (`SchedulerInv`).
* **TcpChannelOrderProofs** (`ExecutedOnce`, `OrderKept`, `KeepsThePromise`). What one channel has sent and the other has not handled (the
  buffer, the wire and the write queue, one after the other) is ordered: of two requests the earlier has the smaller id
  and is for another call. No request that is under way has been executed. A new request has the greatest id so far and
  a call that was never made, and reads only move frames along; what is taken from the front is behind nothing.
  `KeepsThePromise` is the refinement of `RpcCalls`: each action is a step of the promise or none. The step that needs
  work is an answer, which the promise allows only for an executed call: the invariant of the frames under way supplies
  the execution. A close maps to the step that ends exactly the calls of
  that end which wait, and these are the ones registered in its `async_result_`.
* **ReceivePathProofs** (`TypeCorrect`, `PointersStayInBounds`, `BytesKeepTheirOrder`, `FramesStayInStep`,
  `BufferIsBounded`, `OnlyOversizeIsDropped`). The invariant says that the unread bytes are a contiguous piece of the
  stream that begins at a frame boundary, and that reads happen only when less than a frame is buffered, which bounds
  what `Expend` can ask for.
* **AcceptorProofs** (`TypeCorrect`, `BooksAgree`, `NoChannelLeaks`, `LookupIsAlive`, `NothingFreedIsTouched`). The books of
  factory and pool agree whatever user code does (`Books`), and open channels are the only ones with reads, writes
  and kept closures (`Held`). Under the discipline (`Quiet`) canceled writes exist only between the poll and the
  closing phase, so that `OnGC`, which runs before the poll phase, never meets one: this is why a `Disconnected` in
  the poll phase is safe and a `Close` in the timers phase is not.
* **TcpClientProofs** (`TypeCorrect`, `BooksAgree`, `LookupIsAlive`, `NothingFreedIsTouched`). The same argument with
  Connectors in place of the Acceptor: `Books` says in addition that a Connector connects once and has no channel
  before, and `Quiet` that requests to connect belong to living Connectors, which `TcpClient::Close` keeps only when
  no connection attempt is under way.
* **PythonChannelProofs** (`TypeCorrect`, `QueuesOutliveGreenlets`, `NoCallIsLost`, `KeepsThePromise`). That no two callers share an id needs that ids which
  are waited for are at most `_transmit_id`; a response removes only the callers it has woken, so who waits stays
  registered. A queue goes only after both greenlets, and none is started again. For `NoCallIsLost` a place is an end
  and a kind (queue, wire, service): no two frames in any places are for the same call (`Unique`), a frame is
  where the direction of its call lets it be and its call is registered under its id (`FrameInv`), and a caller that
  waits on a whole connection has a frame somewhere (`NotLost`). Every action moves one frame by one place, or turns a
  request into its answer. The refinement of `RpcCalls` uses the same invariant: what a response wakes has been executed.
* **CSharpChannelProofs** (`TypeCorrect`, `OwnAnswers`, `StreamsKept`). That a call waits if and only if its callback can
  be found is inductive once no two ids of a method have the same call (`RequestsInv`). `OwnAnswer` needs to know of every
  frame, in whichever of the buffers, that its id was given for its call and that nobody else is registered under it
  (`AnswerInv`); it also follows the failure that stays in `proto_`. Reconnection is why this must say that
  nothing is under way on a connection that is gone: its callers have been forgotten, and their ids, which are counted on,
  are nobody's. The incoming stream is aligned (`WholeInv`): `readBuffer`, the piece that has come and what the server sent, one after the other,
  are whole frames, and on a connection that is up the last one is complete. The outgoing stream carries, in the order
  of the calls, just those that were made and not served (`OrderInv`), through both write buffers and their swap.
* **DispatchProofs** (`TypeCorrect`, `WholeRequests`, `NoLeaks`, `AnswersAreTrue`). First, for every class and message:
  `Serialize` writes as many fields as `ByteSize` counts, in their order, and `Parse` of what was written gives the
  message back; of what was cut it gives a message without the last field. This makes the types and the announced
  sizes inductive. `LineInv` follows a request: it is in one line, or somebody has its closure, or it waits on the channel to the other
  server and its closure is held there, and never two of these. `WholeRequests` rests on `ServedInv`:
  what a service holds is what the request brought, canceled or not. `NoLeaks` is for `NothingLeaks`,
  which is stated under `Discipline`, what the code needs of its users and of memory (section 3); TLC violates its
  conclusion when any part of the discipline is dropped.
  `HoldInv` says that whoever holds a closure can run it: its objects can be freed once, and a service whose channel
  is closed finds its request canceled. `AnswersAreTrue` needs that an id on a channel belongs to one call for
  good (`Mine`), that the outcome of a call is settled once nobody can serve it any more, and that every answer on the
  wire tells the outcome of the call that waits for it (`ToldInv`).

Only model-checked: the liveness properties (`CallsEndWithConnection`, `CallsComplete`, `ArrivedIsHandled`,
`ClosedCollected`, `EndsTogether`), which need fairness and ENABLED and are outside of the proof system, and the four
disagreements of section 3.

## 5. Not modelled, and why

* How values are encoded: `Message` keeps which fields a message has and where reading it ends.
* Answers that arrive half: only requests are cut. A cut answer reaches a call by the id it still has, as `HandleResponse`
  only looks at that.
* A C++ `Controller` that is used for a second call: nothing of it is sent, since `CallMethod` makes a message of its own
  (channel.cc:98), but until the answer replaces its message (channel.cc:321) it shows what the first call left in
  `is_canceled` and `failed`. Every call of the models has a controller of its own.
* `TcpClosure::Run` without memory for the frame: `Serializer` returns NULL (wire_format.cc:56), which Run dereferences
  (closure.cc:77-80). A local failure of an answer in `TcpChannel` and `Dispatch` is a `uv_write` that refuses it.
* Done closures and cancel callbacks that re-enter `Close` or change the channel under its iterators (channel.cc:348 and
  357): in the models user code that `Close` calls acts only after `Close` has returned.
* `TcpServer::Close`: its loop never runs (base.cc:25), so it closes the pool under its open Acceptors; the server of the
  model is one that closes its Acceptor, or never.
* The middlewares: `LocalListRepoChannel` hands each the same `done`, which for a factory does nothing. `Connected` names a
  connection by its stream and `Disconnected` by its channel (channel_factory.cc:92 and 99).
* C#: sends that are done in part (Channel.cs:419 sends bytes twice), services that call from inside of a request,
  callbacks that close the channel.
* Python: several connections of one `Channel`, services that call back over their own connection.
* libuv, the .NET sockets and the kernel, except for the order of their callbacks; marked external in the map.
* Threads: a loop belongs to a thread (uv_hook.cc), and so do all objects.
* Logging, descriptors and reflection, dependencies, example clients.

## 6. Plan

1. Proofs: for the redirect rule, what of `NothingLeaks` and of the answers survives forwarding (a caller is answered
   at most once, though perhaps with another call's answer); for the pool, that it is empty after a quiet client's close.
2. `TcpServer::Close` as an action of the server, with the order of `ChannelPool::Close` and later `Disconnected`s.
3. Cut answers; an answer without memory for its frame.
4. User code inside of `TcpChannel::Close`, and what it finds of the half-closed channel.
5. Several connections of one Python `Channel`, services that call back over their own connection.
