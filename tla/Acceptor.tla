------------------------------ MODULE Acceptor ------------------------------
(***************************************************************************)
(* maid::Acceptor with its ChannelPool in a server process                 *)
(* (src/channel_factory.cc): connections come and go, requests are served. *)
(***************************************************************************)
EXTENDS ChannelPool

VARIABLES
  accepted,  \* channel_
  handle     \* handle_ # NULL: the listening socket

vars == <<channelVars, accepted, handle>>

TypeOK ==
  /\ PoolTypeOK
  /\ accepted \in SUBSET Address
  /\ handle \in BOOLEAN

(* After Listen.                                                           *)
Init ==
  /\ PoolInit
  /\ accepted = {}
  /\ handle = TRUE

-----------------------------------------------------------------------------
(* OnAccept with a connection.                                             *)
OnAccept(a) ==
  /\ phase = "poll"
  /\ handle
  /\ Connected(a, accepted)
  /\ accepted' = accepted \cup {a}
  /\ UNCHANGED handle

(* Variant: channel_ keeps the channel.                                    *)
DisconnectedStays(a) ==
  /\ phase = "poll"
  /\ a \in reading
  /\ CloseChannels({a}, accepted)
  /\ RemoveChannels({a})
  /\ UNCHANGED <<loopVars, redirect, gc, misuse, accepted, handle>>

(* OnRead with nread < 0.                                                  *)
Disconnected(a) ==
  /\ phase = "poll"
  /\ a \in reading
  /\ CloseChannels({a}, accepted)
  /\ RemoveChannels({a})
  /\ accepted' = accepted \ {a}
  /\ UNCHANGED <<loopVars, redirect, gc, misuse, handle>>

(* Acceptor::Close.  Before the poll phase OnGC comes too early for the    *)
(* write callbacks and for the return of OnTimer.                          *)
Close ==
  /\ UserCode
  /\ misuse' = IF phase = "poll" THEN misuse ELSE misuse \cup {"early close"}
  /\ CloseChannels(accepted, accepted)
  /\ RemoveChannels(accepted)
  /\ accepted' = {}
  /\ handle' = FALSE
  /\ UNCHANGED <<loopVars, redirect, gc>>

Redirect ==
  /\ UserCode
  /\ \/ \E a, b \in Address, force \in BOOLEAN : ChannelRedirect(b, a, force)
     \/ \E a \in Address : RemoveRedirect(a)

(* A service or a closure of a service.                                    *)
Service ==
  \/ ServiceDefers
  \/ \E a \in Address : Answer(a) \/ CallMethod(a)

(* After a fault the program is gone.                                      *)
Crashed == fault # "none" /\ UNCHANGED vars

Next ==
  \/ /\ fault = "none"
     /\ \/ \E a \in Address : OnAccept(a) \/ Disconnected(a)
        \/ Close
        \/ (Redirect \/ Service \/ ChannelCallback \/ Loop) /\ UNCHANGED <<accepted, handle>>
  \/ Crashed

(* Every callback returns and the loop goes round: a timer that has run is *)
(* due a millisecond later, so the timers of an iteration come to an end   *)
(* although TimerHandle can again and again come before OnGC.              *)
Going(A) == fault = "none" /\ A /\ UNCHANGED <<accepted, handle>>
Fairness == WF_vars(Going(TimerReturn)) /\ SF_vars(Going(Loop))

Spec == Init /\ [][Next]_vars
FairSpec == Spec /\ Fairness

-----------------------------------------------------------------------------
(* The factory, the pool and the channels agree on what is open            *)
(* (the CHECKs at channel_factory.cc:219 and 228, channel_pool.cc:102).    *)
OpenIsOwned ==
  \A a \in Address : /\ object[a] = "open" <=> a \in channels
                     /\ a \in accepted <=> a \in channels

(* The memory of every closed connection is freed in the end.              *)
ClosedCollected ==
  \A a \in Address : object[a] = "closed" ~> object[a] = "none" \/ fault # "none"

=============================================================================
