------------------------------ MODULE TcpClient ------------------------------
(***************************************************************************)
(* maid::TcpClient (src/base.cc) and maid::Connector                       *)
(* (src/channel_factory.cc) with their ChannelPool in a client process:    *)
(* connectors are made, connect or fail, lose their connection, and are    *)
(* closed and deleted together.                                            *)
(***************************************************************************)
EXTENDS ChannelPool

CONSTANTS Connectors  \* the Connectors that Connect may make

VARIABLES
  connector,   \* a Connector: "none", "made" or "deleted"
  req,         \* its req_: "null", "allocated" or "freed"
  connecting,  \* the Connectors whose OnConnect is to come
  channel,     \* its channel_
  closed       \* TcpClient::Close has been called

clientVars == <<connector, req, connecting, channel, closed>>
vars == <<channelVars, clientVars>>

TypeOK ==
  /\ PoolTypeOK
  /\ connector \in [Connectors -> {"none", "made", "deleted"}]
  /\ req \in [Connectors -> {"null", "allocated", "freed"}]
  /\ connecting \in SUBSET Connectors
  /\ channel \in [Connectors -> Address \cup {Nobody}]
  /\ closed \in BOOLEAN

Init ==
  /\ PoolInit
  /\ connector = [k \in Connectors |-> "none"]
  /\ req = [k \in Connectors |-> "null"]
  /\ connecting = {}
  /\ channel = [k \in Connectors |-> Nobody]
  /\ closed = FALSE

-----------------------------------------------------------------------------
(* new Connector and its Connect: req_ and the handle are allocated, the   *)
(* address parsed, uv_tcp_connect called.  A failure that is found there   *)
(* closes the Connector, an earlier one only returns.                      *)
Connect(k) ==
  /\ UserCode
  /\ ~closed
  /\ connector[k] = "none"
  /\ connector' = [connector EXCEPT ![k] = "made"]
  /\ \/ /\ req' = [req EXCEPT ![k] = "allocated"]
        /\ connecting' = connecting \cup {k}
     \/ /\ req' \in {req, [req EXCEPT ![k] = "allocated"]}
        /\ UNCHANGED connecting
     \/ /\ req' = [req EXCEPT ![k] = "freed"]
        /\ UNCHANGED connecting
  /\ UNCHANGED <<channelVars, channel, closed>>

(* libuv touches the request, OnConnect the Connector.                     *)
OnConnectFreed(k) ==
  /\ k \in connecting
  /\ req[k] = "freed" \/ connector[k] = "deleted"
  /\ fault' = "freed request"
  /\ connecting' = connecting \ {k}
  /\ UNCHANGED <<loopVars, poolVars, streamVars, closureVars, object, misuse, connector,
                 req, channel, closed>>

OnConnectFails(k) ==
  /\ k \in connecting
  /\ req[k] = "allocated" /\ connector[k] = "made"
  /\ connecting' = connecting \ {k}
  /\ UNCHANGED <<channelVars, connector, req, channel, closed>>

(* Variant: the Connector does not learn of its channel.                   *)
OnConnectForgets(k, a) ==
  /\ k \in connecting
  /\ req[k] = "allocated" /\ connector[k] = "made"
  /\ connecting' = connecting \ {k}
  /\ Connected(a, {})
  /\ UNCHANGED <<connector, req, channel, closed>>

(* A new TcpChannel at a.                                                  *)
OnConnect(k, a) ==
  /\ k \in connecting
  /\ req[k] = "allocated" /\ connector[k] = "made"
  /\ connecting' = connecting \ {k}
  /\ Connected(a, IF channel[k] = Nobody THEN {} ELSE {a})
  /\ channel' = [channel EXCEPT ![k] = a]
  /\ UNCHANGED <<connector, req, closed>>

(* Variant: channel_ keeps the channel.                                    *)
DisconnectedStays(k) ==
  /\ phase = "poll"
  /\ channel[k] \in reading
  /\ CloseChannels({channel[k]}, {channel[k]})
  /\ RemoveChannels({channel[k]})
  /\ UNCHANGED <<loopVars, redirect, gc, misuse, clientVars>>

(* OnRead with nread < 0.                                                  *)
Disconnected(k) ==
  /\ phase = "poll"
  /\ channel[k] \in reading
  /\ CloseChannels({channel[k]}, {channel[k]})
  /\ RemoveChannels({channel[k]})
  /\ channel' = [channel EXCEPT ![k] = Nobody]
  /\ UNCHANGED <<loopVars, redirect, gc, misuse, connector, req, connecting, closed>>

(* ChannelPool::Close: everything is forgotten, the removed channels S are *)
(* deleted in the call and gc_ stops.                                      *)
PoolClose(S) ==
  /\ channels' = {}
  /\ redirect' = [a \in Address |-> Nobody]
  /\ gc' = FALSE
  /\ invalid' = {}
  /\ object' = [a \in Address |-> IF a \in S THEN "none" ELSE object[a]]

(* TcpClient::Close: every Connector is closed and deleted, which closes   *)
(* its channel and frees its request, then the pool is closed.  libuv's    *)
(* connect requests, timers and writes stay with the loop, and with them   *)
(* pointers to what is deleted here.                                       *)
Careless ==
  {m \in {"connecting", "writing", "handling"} :
     \/ m = "connecting" /\ connecting # {}
     \/ m = "writing" /\ writing \cup canceled # {}
     \/ m = "handling" /\ handling # Nobody}

Close ==
  /\ UserCode
  /\ ~closed
  /\ \A k \in Connectors : req[k] # "freed"
  /\ LET open == {channel[k] : k \in Connectors} \ {Nobody} IN
       /\ CloseChannels(open, open)
       /\ PoolClose(open \cup invalid)
  /\ connector' = [k \in Connectors |-> IF connector[k] = "made" THEN "deleted" ELSE connector[k]]
  /\ req' = [k \in Connectors |-> IF req[k] = "allocated" THEN "freed" ELSE req[k]]
  /\ channel' = [k \in Connectors |-> Nobody]
  /\ closed' = TRUE
  /\ misuse' = misuse \cup Careless
  /\ UNCHANGED <<loopVars, connecting>>

(* A Connector whose Connect failed at once has freed its req_ already.    *)
CloseFreesTwice ==
  /\ UserCode
  /\ ~closed
  /\ \E k \in Connectors : req[k] = "freed"
  /\ fault' = "freed request"
  /\ misuse' = misuse \cup {"failed at once"}
  /\ UNCHANGED <<loopVars, poolVars, streamVars, closureVars, object, clientVars>>

(* Stubs are called on what channel() gives, a client may have services    *)
(* too, and there may be redirect rules.                                   *)
User ==
  \/ ServiceDefers
  \/ \E a \in Address : CallMethod(a) \/ Answer(a)
  \/ /\ UserCode
     /\ \/ \E a \in Address : RemoveRedirect(a)
        \/ \E a, b \in Address, force \in BOOLEAN : ChannelRedirect(b, a, force)

(* After a fault the program is gone.                                      *)
Crashed == fault # "none" /\ UNCHANGED vars

Next ==
  \/ /\ fault = "none"
     /\ \/ \E k \in Connectors :
             \/ Connect(k)
             \/ Disconnected(k)
             \/ /\ phase \in {"timers", "poll"} /\ handling = Nobody
                /\ \/ OnConnectFails(k)
                   \/ OnConnectFreed(k)
                   \/ \E a \in Address : OnConnect(k, a)
        \/ Close
        \/ CloseFreesTwice
        \/ (User \/ ChannelCallback \/ Loop) /\ UNCHANGED clientVars
  \/ Crashed

Spec == Init /\ [][Next]_vars

-----------------------------------------------------------------------------
(* The Connectors, the pool and the channels agree on what is open, and no *)
(* channel has two Connectors (the CHECKs at channel_factory.cc:336 and    *)
(* 343): TcpClient::channel never hands out a dead channel.                *)
OpenIsOwned ==
  \A a \in Address :
    /\ object[a] = "open" <=> a \in channels
    /\ object[a] = "open" <=> \E k \in Connectors : channel[k] = a
    /\ \A k, l \in Connectors : channel[k] = a /\ channel[l] = a => k = l

(* The hello client closes itself in the done closure of its last call     *)
(* (example/hello/client.cpp:26, "client_->Close();").                     *)
CloseInDoneIsSafe == misuse \subseteq {"handling"} => fault = "none"

=============================================================================
