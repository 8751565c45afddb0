---------------------------- MODULE ChannelPool -----------------------------
(***************************************************************************)
(* Who owns a maid::TcpChannel and when its memory goes: maid::ChannelPool *)
(* (src/channel_pool.cc), the libuv loop whose prepare phase runs its      *)
(* OnGC, and the callbacks that still point at a channel (src/channel.cc,  *)
(* src/closure.cc).  Acceptor and TcpClient add the factories.             *)
(*                                                                         *)
(* One iteration of the loop is "timers" (and pending callbacks), OnGC,    *)
(* "poll", "closing"; "user" is the time between two calls of Update.      *)
(* A channel is its address, which the allocator may use again.            *)
(***************************************************************************)
EXTENDS Naturals

CONSTANTS
  Address,  \* where TcpChannels may be allocated
  Nobody    \* NULL, and the default channel of the pool

ASSUME NobodyAssumption == Nobody \notin Address

VARIABLES
  phase,     \* where the loop is
  object,    \* the TcpChannel at an address: "none", "open" or "closed"
  channels,  \* channel_, without the router and the middleware
  redirect,  \* redirect_channel_; Nobody where there is no rule
  invalid,   \* channel_invalid_, to be deleted by OnGC
  gc,        \* the prepare handle gc_ is active
  reading,   \* streams between uv_read_start and uv_read_stop
  timer,     \* active timer_handle_s
  handling,  \* the channel whose OnTimer runs user code, or Nobody
  writing,   \* open streams with a write whose callback is to come
  canceled,  \* closed streams with a write whose callback is to come
  deferred,  \* open channels with a TcpClosure that a service keeps
  orphaned,  \* the channels of kept TcpClosures that Close has canceled
  fault,     \* the first thing that has gone wrong
  misuse     \* what user code has done that it has to avoid

loopVars == <<phase, handling>>
poolVars == <<channels, redirect, invalid, gc>>
streamVars == <<reading, timer, writing, canceled>>
closureVars == <<deferred, orphaned>>
channelVars == <<loopVars, poolVars, streamVars, closureVars, object, fault, misuse>>

PoolTypeOK ==
  /\ phase \in {"user", "timers", "poll", "closing"}
  /\ object \in [Address -> {"none", "open", "closed"}]
  /\ channels \in SUBSET Address
  /\ redirect \in [Address -> Address \cup {Nobody}]
  /\ invalid \in SUBSET Address
  /\ gc \in BOOLEAN
  /\ reading \in SUBSET Address
  /\ timer \in SUBSET Address
  /\ handling \in Address \cup {Nobody}
  /\ writing \in SUBSET Address
  /\ canceled \in SUBSET Address
  /\ deferred \in SUBSET Address
  /\ orphaned \in SUBSET Address
  /\ fault \in {"none", "freed channel", "null stream", "freed request", "check"}
  /\ misuse \subseteq {"late answer", "early close", "connecting", "writing", "handling",
                      "failed at once"}

PoolInit ==
  /\ phase = "user"
  /\ object = [a \in Address |-> "none"]
  /\ channels = {}
  /\ redirect = [a \in Address |-> Nobody]
  /\ invalid = {}
  /\ gc = TRUE
  /\ reading = {}
  /\ timer = {}
  /\ handling = Nobody
  /\ writing = {}
  /\ canceled = {}
  /\ deferred = {}
  /\ orphaned = {}
  /\ fault = "none"
  /\ misuse = {}

(* User code runs: between two iterations, or in a callback of its own or  *)
(* of a channel.                                                           *)
UserCode == phase \in {"user", "timers", "poll"}

(* A member of the channel at a is touched.                                *)
Touch(a) == fault' = IF object[a] = "none" THEN "freed channel" ELSE fault

-----------------------------------------------------------------------------
(* The pool                                                                *)

(* Variant: a rule is followed to wherever it leads.                       *)
ChannelUnchecked(a) ==
  IF redirect[a] # Nobody THEN redirect[a] ELSE IF a \in channels THEN a ELSE Nobody

(* ChannelPool::channel(origin).                                           *)
Channel(a) ==
  LET origin == IF redirect[a] # Nobody THEN redirect[a] ELSE a
  IN IF origin \in channels THEN origin ELSE Nobody

ChannelRedirect(another, origin, force) ==
  /\ redirect' = IF redirect[origin] = Nobody \/ force
                 THEN [redirect EXCEPT ![origin] = another] ELSE redirect
  /\ UNCHANGED <<loopVars, channels, invalid, gc, streamVars, object, closureVars, fault, misuse>>

RemoveRedirect(a) ==
  /\ redirect' = [redirect EXCEPT ![a] = Nobody]
  /\ UNCHANGED <<loopVars, channels, invalid, gc, streamVars, object, closureVars, fault, misuse>>

(* A factory's Connected: new TcpChannel at a, which reads from its        *)
(* stream, and AddChannel.  Both CHECK that a is not theirs yet.           *)
Connected(a, owned) ==
  /\ object[a] = "none"
  /\ object' = [object EXCEPT ![a] = "open"]
  /\ reading' = reading \cup {a}
  /\ timer' = timer \ {a}
  /\ channels' = channels \cup {a}
  /\ fault' = IF a \in channels \cup owned THEN "check" ELSE fault
  /\ UNCHANGED <<loopVars, redirect, invalid, gc, writing, canceled, closureVars, misuse>>

(* TcpChannel::Close on every channel of S, which the factory CHECKs to be *)
(* owned; libuv cancels their writes in the closing phase.  A channel that *)
(* is closed already has no stream.                                        *)
CloseChannels(S, owned) ==
  /\ reading' = reading \ S
  /\ timer' = timer \ S
  /\ writing' = writing \ S
  /\ canceled' = canceled \cup (writing \cap S)
  /\ deferred' = deferred \ S
  /\ orphaned' = orphaned \cup (deferred \cap S)
  /\ fault' = IF ~(S \subseteq owned) THEN "check"
              ELSE IF \E a \in S : object[a] = "none" THEN "freed channel"
              ELSE IF \E a \in S : object[a] = "closed" THEN "null stream" ELSE fault

(* Variant: the pool forgets a channel without remembering to delete it.   *)
RemoveChannelsLeak(S) ==
  /\ channels' = channels \ S
  /\ invalid' = invalid
  /\ object' = [a \in Address |-> IF a \in S THEN "closed" ELSE object[a]]

(* Variant: the pool deletes a channel at once.                            *)
RemoveChannelsDelete(S) ==
  /\ channels' = channels \ S
  /\ invalid' = invalid
  /\ object' = [a \in Address |-> IF a \in S THEN "none" ELSE object[a]]

(* Variant: what is pushed to channel_invalid_ is NULL already.            *)
RemoveChannelsNull(S) ==
  /\ channels' = channels \ S
  /\ invalid' = invalid \cup {Nobody}
  /\ object' = [a \in Address |-> IF a \in S THEN "closed" ELSE object[a]]

(* RemoveChannel for every channel of S, all of them closed with it.       *)
RemoveChannels(S) ==
  /\ channels' = channels \ S
  /\ invalid' = invalid \cup (S \cap channels)
  /\ object' = [a \in Address |-> IF a \in S THEN "closed" ELSE object[a]]

-----------------------------------------------------------------------------
(* What libuv and the services call on a channel                           *)

(* OnRead with data, in the poll phase.                                    *)
Readable(a) ==
  /\ phase = "poll"
  /\ a \in reading
  /\ Touch(a)
  /\ reading' = reading \ {a}
  /\ timer' = timer \cup {a}
  /\ UNCHANGED <<loopVars, poolVars, object, writing, canceled, closureVars, misuse>>

(* OnTimer, no frame: the stream is read again, if there is one.           *)
TimerLackData(a) ==
  /\ phase = "timers" /\ handling = Nobody
  /\ a \in timer
  /\ fault' = IF object[a] = "none" THEN "freed channel"
              ELSE IF object[a] = "closed" THEN "null stream" ELSE fault
  /\ timer' = timer \ {a}
  /\ reading' = reading \cup {a}
  /\ UNCHANGED <<loopVars, poolVars, object, writing, canceled, closureVars, misuse>>

(* OnTimer, a frame: a service or a done closure is called ...             *)
TimerHandle(a) ==
  /\ phase = "timers" /\ handling = Nobody
  /\ a \in timer
  /\ object[a] = "open"
  /\ handling' = a
  /\ timer' = timer \ {a}
  /\ UNCHANGED <<phase, poolVars, object, reading, writing, canceled, closureVars, fault, misuse>>

(* ... which may answer at once, or keep the TcpClosure for later, ...     *)
ServiceAnswers ==
  /\ handling # Nobody
  /\ object[handling] = "open"
  /\ writing' = writing \cup {handling}
  /\ UNCHANGED <<loopVars, poolVars, object, reading, timer, canceled, closureVars, fault, misuse>>

ServiceDefers ==
  /\ handling # Nobody
  /\ object[handling] = "open"
  /\ deferred' = deferred \cup {handling}
  /\ UNCHANGED <<loopVars, poolVars, object, streamVars, orphaned, fault, misuse>>

(* ... and uv_timer_again, which starts a stopped timer too.               *)
TimerReturn ==
  /\ handling # Nobody
  /\ Touch(handling)
  /\ timer' = timer \cup {handling}
  /\ handling' = Nobody
  /\ UNCHANGED <<phase, poolVars, object, reading, writing, canceled, closureVars, misuse>>

(* TcpClosure::Run of a kept closure, perhaps the last one: RemoveController *)
(* and, unless the request has been canceled, a write.                     *)
Answer(a) ==
  /\ UserCode
  /\ Touch(a)
  /\ \/ /\ a \in deferred
        /\ deferred' \in {deferred, deferred \ {a}}
        /\ writing' = writing \cup {a}
        /\ UNCHANGED <<orphaned, misuse>>
     \/ /\ a \in orphaned
        /\ orphaned' \in {orphaned, orphaned \ {a}}
        /\ misuse' = misuse \cup {"late answer"}
        /\ UNCHANGED <<deferred, writing>>
  /\ UNCHANGED <<loopVars, poolVars, object, reading, timer, canceled>>

(* A stub's call on an open channel.                                       *)
CallMethod(a) ==
  /\ UserCode
  /\ object[a] = "open"
  /\ writing' = writing \cup {a}
  /\ UNCHANGED <<loopVars, poolVars, object, reading, timer, canceled, closureVars, fault, misuse>>

(* AfterSendRequest, AfterSendResponse: the last write is done.            *)
Written(a) ==
  /\ phase \in {"timers", "poll"} /\ handling = Nobody
  /\ a \in writing
  /\ Touch(a)
  /\ writing' = writing \ {a}
  /\ UNCHANGED <<loopVars, poolVars, object, reading, timer, canceled, closureVars, misuse>>

-----------------------------------------------------------------------------
(* The loop                                                                *)

StartIteration ==
  /\ phase = "user"
  /\ phase' = "timers"
  /\ UNCHANGED <<handling, poolVars, streamVars, object, closureVars, fault, misuse>>

(* The prepare phase: OnGC deletes what has been removed.                  *)
OnGC ==
  /\ phase = "timers" /\ handling = Nobody
  /\ phase' = "poll"
  /\ IF gc
       THEN /\ object' = [a \in Address |-> IF a \in invalid THEN "none" ELSE object[a]]
            /\ invalid' = {}
       ELSE UNCHANGED <<object, invalid>>
  /\ UNCHANGED <<handling, channels, redirect, gc, streamVars, closureVars, fault, misuse>>

EndPoll ==
  /\ phase = "poll"
  /\ phase' = "closing"
  /\ UNCHANGED <<handling, poolVars, streamVars, object, closureVars, fault, misuse>>

(* uv__run_closing_handles: the writes of closed streams are called back,  *)
(* with UV_ECANCELED, on the channel they were made for.                   *)
RunClosing ==
  /\ phase = "closing"
  /\ phase' = "user"
  /\ canceled' = {}
  /\ fault' = IF \E a \in canceled : object[a] = "none" THEN "freed channel" ELSE fault
  /\ UNCHANGED <<handling, poolVars, reading, timer, writing, object, closureVars, misuse>>

ChannelCallback ==
  \/ \E a \in Address : Readable(a) \/ TimerLackData(a) \/ TimerHandle(a) \/ Written(a)
  \/ ServiceAnswers
  \/ TimerReturn

Loop == StartIteration \/ OnGC \/ EndPoll \/ RunClosing

-----------------------------------------------------------------------------
(* What the pool is for                                                    *)

(* A lookup never leads to a channel that is closed or deleted, by a rule  *)
(* or otherwise: services call stubs on the result (channel_pool.cc:61-83).*)
LookupAlive ==
  \A a \in Address : Channel(a) # Nobody => object[Channel(a)] = "open"

(* A closed channel is remembered until its memory is freed.               *)
ClosedRemembered ==
  \A a \in Address : object[a] = "closed" <=> a \in invalid

(* Nobody touches a channel that has been deleted or has lost its stream,  *)
(* and no CHECK of the factories and the pool fails, as long as user code  *)
(* keeps to a discipline: a service answers before its channel is closed   *)
(* (it may ask IsCanceled), and factories are closed where it is safe.     *)
NoFault == misuse = {} => fault = "none"

=============================================================================
