--------------------------- MODULE TcpClientProofs --------------------------
(***************************************************************************)
(* Proofs about TcpClient, for every set of addresses and Connectors.      *)
(***************************************************************************)
EXTENDS TcpClient, TLAPS

(* A Connector connects once, and has no channel before.                   *)
Attempts ==
  \A k \in Connectors :
    /\ connector[k] = "none" => k \notin connecting /\ channel[k] = Nobody
    /\ k \in connecting => channel[k] = Nobody

Books == OpenIsOwned /\ ClosedRemembered /\ Attempts

(* What points at a channel without user code being to blame: streams that *)
(* are read, writes and kept closures are those of open channels.          *)
Held ==
  /\ fault = "none" => reading \subseteq channels
  /\ writing \subseteq channels
  /\ deferred \subseteq channels

(* Under the discipline: requests to connect belong to living Connectors,  *)
(* timers run on open channels, and a channel with a canceled write is not *)
(* deleted before the write is called back.                                *)
Quiet ==
  misuse = {} =>
    /\ fault = "none"
    /\ \A k \in connecting : connector[k] = "made" /\ req[k] = "allocated"
    /\ timer \subseteq channels
    /\ canceled \subseteq invalid
    /\ canceled # {} => phase \in {"poll", "closing"}
    /\ handling # Nobody => handling \in channels /\ phase = "timers"

IInv == TypeOK /\ Books /\ Held /\ Quiet

-----------------------------------------------------------------------------
(* Every step keeps the types. *)
LEMMA TypeStep ==
  ASSUME TypeOK, [Next]_vars
  PROVE  TypeOK'
PROOF
<1> USE NobodyAssumption DEF loopVars, poolVars, streamVars, closureVars
<1>1. ASSUME fault = "none", NEW k \in Connectors, Connect(k)
     PROVE  TypeOK'
  BY <1>1 DEF Connect, TypeOK, PoolTypeOK, clientVars, channelVars
<1>2. ASSUME fault = "none", NEW k \in Connectors, Disconnected(k)
     PROVE  TypeOK'
  BY <1>2 DEF Disconnected, CloseChannels, RemoveChannels, TypeOK, PoolTypeOK,
     clientVars, channelVars
<1>3. ASSUME fault = "none", NEW k \in Connectors, OnConnectFails(k)
     PROVE  TypeOK'
  BY <1>3 DEF OnConnectFails, TypeOK, PoolTypeOK, clientVars, channelVars
<1>4. ASSUME fault = "none", NEW k \in Connectors, OnConnectFreed(k)
     PROVE  TypeOK'
  BY <1>4 DEF OnConnectFreed, TypeOK, PoolTypeOK, clientVars, channelVars
<1>5. ASSUME fault = "none", NEW k \in Connectors, NEW a \in Address, OnConnect(k, a)
     PROVE  TypeOK'
  BY <1>5 DEF OnConnect, Connected, TypeOK, PoolTypeOK, clientVars,
     channelVars
<1>6. ASSUME fault = "none", Close
     PROVE  TypeOK'
  BY <1>6 DEF Close, CloseChannels, PoolClose, Careless, TypeOK, PoolTypeOK,
     clientVars, channelVars
<1>7. ASSUME fault = "none", CloseFreesTwice
     PROVE  TypeOK'
  BY <1>7 DEF CloseFreesTwice, TypeOK, PoolTypeOK, clientVars, channelVars
<1>8. ASSUME fault = "none", NEW a \in Address, NEW b \in Address, NEW force \in BOOLEAN, ChannelRedirect(b, a, force),
            UNCHANGED clientVars
     PROVE  TypeOK'
  BY <1>8 DEF ChannelRedirect, TypeOK, PoolTypeOK, clientVars, channelVars
<1>9. ASSUME fault = "none", NEW a \in Address, RemoveRedirect(a),
            UNCHANGED clientVars
     PROVE  TypeOK'
  BY <1>9 DEF RemoveRedirect, TypeOK, PoolTypeOK, clientVars, channelVars
<1>10. ASSUME fault = "none", ServiceDefers,
            UNCHANGED clientVars
     PROVE  TypeOK'
  BY <1>10 DEF ServiceDefers, TypeOK, PoolTypeOK, clientVars, channelVars
<1>11. ASSUME fault = "none", NEW a \in Address, Answer(a),
            UNCHANGED clientVars
     PROVE  TypeOK'
  BY <1>11 DEF Answer, Touch, TypeOK, PoolTypeOK, clientVars, channelVars
<1>12. ASSUME fault = "none", NEW a \in Address, CallMethod(a),
            UNCHANGED clientVars
     PROVE  TypeOK'
  BY <1>12 DEF CallMethod, TypeOK, PoolTypeOK, clientVars, channelVars
<1>13. ASSUME fault = "none", NEW a \in Address, Readable(a),
            UNCHANGED clientVars
     PROVE  TypeOK'
  BY <1>13 DEF Readable, Touch, TypeOK, PoolTypeOK, clientVars, channelVars
<1>14. ASSUME fault = "none", NEW a \in Address, TimerLackData(a),
            UNCHANGED clientVars
     PROVE  TypeOK'
  BY <1>14 DEF TimerLackData, TypeOK, PoolTypeOK, clientVars, channelVars
<1>15. ASSUME fault = "none", NEW a \in Address, TimerHandle(a),
            UNCHANGED clientVars
     PROVE  TypeOK'
  BY <1>15 DEF TimerHandle, TypeOK, PoolTypeOK, clientVars, channelVars
<1>16. ASSUME fault = "none", NEW a \in Address, Written(a),
            UNCHANGED clientVars
     PROVE  TypeOK'
  BY <1>16 DEF Written, Touch, TypeOK, PoolTypeOK, clientVars, channelVars
<1>17. ASSUME fault = "none", ServiceAnswers,
            UNCHANGED clientVars
     PROVE  TypeOK'
  BY <1>17 DEF ServiceAnswers, TypeOK, PoolTypeOK, clientVars, channelVars
<1>18. ASSUME fault = "none", TimerReturn,
            UNCHANGED clientVars
     PROVE  TypeOK'
  BY <1>18 DEF TimerReturn, Touch, TypeOK, PoolTypeOK, clientVars, channelVars
<1>19. ASSUME fault = "none", StartIteration,
            UNCHANGED clientVars
     PROVE  TypeOK'
  BY <1>19 DEF StartIteration, TypeOK, PoolTypeOK, clientVars, channelVars
<1>20. ASSUME fault = "none", OnGC,
            UNCHANGED clientVars
     PROVE  TypeOK'
  BY <1>20 DEF OnGC, TypeOK, PoolTypeOK, clientVars, channelVars
<1>21. ASSUME fault = "none", EndPoll,
            UNCHANGED clientVars
     PROVE  TypeOK'
  BY <1>21 DEF EndPoll, TypeOK, PoolTypeOK, clientVars, channelVars
<1>22. ASSUME fault = "none", RunClosing,
            UNCHANGED clientVars
     PROVE  TypeOK'
  BY <1>22 DEF RunClosing, TypeOK, PoolTypeOK, clientVars, channelVars
<1>23. CASE UNCHANGED vars
  BY <1>23 DEF vars, TypeOK, PoolTypeOK, clientVars, channelVars
<1> QED
  BY <1>1, <1>2, <1>3, <1>4, <1>5, <1>6, <1>7, <1>8, <1>9, <1>10, <1>11,
     <1>12, <1>13, <1>14, <1>15, <1>16, <1>17, <1>18, <1>19, <1>20, <1>21,
     <1>22, <1>23 DEF Next, User, ChannelCallback, Loop, Crashed

(* The books look at these variables only. *)
LEMMA BooksFrame ==
  ASSUME Books, UNCHANGED <<object, channels, invalid, connector, connecting, channel>>
  PROVE  Books'
PROOF
  BY DEF Books, OpenIsOwned, ClosedRemembered, Attempts

(* Every step keeps the books of Connectors, pool and channels in agreement. *)
LEMMA BooksStep ==
  ASSUME TypeOK, Books, Held, [Next]_vars
  PROVE  Books'
PROOF
<1> USE NobodyAssumption DEF loopVars, poolVars, streamVars, closureVars
<1>1. ASSUME fault = "none", NEW k \in Connectors, Connect(k)
     PROVE  Books'
  <2>1. UNCHANGED <<object, channels, invalid, channel>>
    BY <1>1 DEF Connect, channelVars
  <2>2. connecting' \subseteq connecting \cup {k}
    BY <1>1 DEF Connect
  <2>3. \A j \in Connectors : connector'[j] = IF j = k THEN "made" ELSE connector[j]
    BY <1>1 DEF Connect, TypeOK
  <2>4. channel[k] = Nobody
    BY <1>1 DEF Connect, Books, Attempts
  <2>5. OpenIsOwned' /\ ClosedRemembered'
    BY <2>1 DEF Books, OpenIsOwned, ClosedRemembered
  <2>6. Attempts'
    BY <2>1, <2>2, <2>3, <2>4 DEF Books, Attempts
  <2> QED
    BY <2>5, <2>6 DEF Books
<1>2. ASSUME fault = "none", NEW k \in Connectors, Disconnected(k)
     PROVE  Books'
  <2> DEFINE c == channel[k]
  <2>1. c \in Address /\ c \in channels /\ object[c] = "open"
    BY <1>2 DEF Disconnected, TypeOK, PoolTypeOK, Held, Books, OpenIsOwned
  <2>2. /\ \A a \in Address : object'[a] = IF a = c THEN "closed" ELSE object[a]
        /\ channels' = channels \ {c}
        /\ invalid' = invalid \cup {c}
    <3>1. RemoveChannels({c})
      BY <1>2 DEF Disconnected
    <3> QED
      BY <2>1, <3>1 DEF RemoveChannels
  <2>3. /\ \A j \in Connectors : channel'[j] = IF j = k THEN Nobody ELSE channel[j]
        /\ UNCHANGED <<connector, connecting>>
    BY <1>2 DEF Disconnected, TypeOK
  <2>4. \A j \in Connectors : channel'[j] = c => j = k
    BY <2>1, <2>3 DEF Books, OpenIsOwned
  <2>5. OpenIsOwned'
    BY <2>1, <2>2, <2>3, <2>4 DEF Books, OpenIsOwned
  <2>6. ClosedRemembered'
    BY <2>1, <2>2 DEF Books, ClosedRemembered
  <2>7. Attempts'
    BY <2>3 DEF Books, Attempts
  <2> QED
    BY <2>5, <2>6, <2>7 DEF Books
<1>3. ASSUME fault = "none", NEW k \in Connectors, OnConnectFails(k)
     PROVE  Books'
  <2>1. UNCHANGED <<object, channels, invalid, channel, connector>>
    BY <1>3 DEF OnConnectFails, channelVars
  <2>2. connecting' \subseteq connecting
    BY <1>3 DEF OnConnectFails
  <2>3. OpenIsOwned' /\ ClosedRemembered' /\ Attempts'
    BY <2>1, <2>2 DEF Books, OpenIsOwned, ClosedRemembered, Attempts
  <2> QED
    BY <2>3 DEF Books
<1>4. ASSUME fault = "none", NEW k \in Connectors, OnConnectFreed(k)
     PROVE  Books'
  <2>1. UNCHANGED <<object, channels, invalid, channel, connector>>
    BY <1>4 DEF OnConnectFreed, channelVars
  <2>2. connecting' \subseteq connecting
    BY <1>4 DEF OnConnectFreed
  <2>3. OpenIsOwned' /\ ClosedRemembered' /\ Attempts'
    BY <2>1, <2>2 DEF Books, OpenIsOwned, ClosedRemembered, Attempts
  <2> QED
    BY <2>3 DEF Books
<1>5. ASSUME fault = "none", NEW k \in Connectors, NEW a \in Address, OnConnect(k, a)
     PROVE  Books'
  <2>1. /\ object[a] = "none"
        /\ \A b \in Address : object'[b] = IF b = a THEN "open" ELSE object[b]
        /\ channels' = channels \cup {a} /\ invalid' = invalid
    BY <1>5 DEF OnConnect, Connected, TypeOK, PoolTypeOK
  <2>2. /\ \A j \in Connectors : channel'[j] = IF j = k THEN a ELSE channel[j]
        /\ connecting' = connecting \ {k} /\ connector' = connector
        /\ connector[k] = "made" /\ channel[k] = Nobody
    BY <1>5 DEF OnConnect, TypeOK, Books, Attempts
  <2>3. \A j \in Connectors : channel[j] # a
    BY <2>1 DEF Books, OpenIsOwned
  <2>4. OpenIsOwned'
    <3> SUFFICES ASSUME NEW b \in Address
                 PROVE  /\ object'[b] = "open" <=> b \in channels'
                        /\ object'[b] = "open" <=> \E j \in Connectors : channel'[j] = b
                        /\ \A j, l \in Connectors :
                             channel'[j] = b /\ channel'[l] = b => j = l
      BY DEF OpenIsOwned
    <3>1. CASE b = a
      BY <3>1, <2>1, <2>2, <2>3
    <3>2. CASE b # a
      <4>1. \A j \in Connectors : channel'[j] = b <=> channel[j] = b
        BY <3>2, <2>2
      <4> QED
        BY <3>2, <4>1, <2>1 DEF Books, OpenIsOwned
    <3> QED
      BY <3>1, <3>2
  <2>5. ClosedRemembered'
    BY <2>1 DEF Books, ClosedRemembered
  <2>6. Attempts'
    BY <2>2 DEF Books, Attempts
  <2> QED
    BY <2>4, <2>5, <2>6 DEF Books
<1>6. ASSUME fault = "none", Close
     PROVE  Books'
  <2> DEFINE open == {channel[l] : l \in Connectors} \ {Nobody}
  <2>1. \A a \in Address : object'[a] = IF a \in open \cup invalid THEN "none" ELSE object[a]
    BY <1>6 DEF Close, PoolClose
  <2>2. \A a \in Address : object'[a] = "none"
    <3> SUFFICES ASSUME NEW a \in Address PROVE object'[a] = "none"
      OBVIOUS
    <3>1. object[a] \in {"none", "open", "closed"}
      BY DEF TypeOK, PoolTypeOK
    <3>2. CASE object[a] = "open"
      <4>1. PICK k \in Connectors : channel[k] = a
        BY <3>2 DEF Books, OpenIsOwned
      <4>2. a \in open
        BY <4>1
      <4> QED
        BY <4>2, <2>1
    <3>3. CASE object[a] = "closed"
      BY <3>3, <2>1 DEF Books, ClosedRemembered
    <3> QED
      BY <3>1, <3>2, <3>3, <2>1
  <2>3. /\ channels' = {} /\ invalid' = {} /\ connecting' = connecting
        /\ \A k \in Connectors : channel'[k] = Nobody
        /\ \A k \in Connectors : connector'[k] = "none" => connector[k] = "none"
    BY <1>6 DEF Close, PoolClose, TypeOK
  <2>4. OpenIsOwned' /\ ClosedRemembered'
    BY <2>2, <2>3 DEF OpenIsOwned, ClosedRemembered
  <2>5. Attempts'
    BY <2>3 DEF Books, Attempts
  <2> QED
    BY <2>4, <2>5 DEF Books
<1>7. ASSUME fault = "none", CloseFreesTwice
     PROVE  Books'
  BY <1>7, BooksFrame DEF CloseFreesTwice, clientVars
<1>8. ASSUME fault = "none", NEW a \in Address, NEW b \in Address, NEW force \in BOOLEAN, ChannelRedirect(b, a, force),
            UNCHANGED clientVars
     PROVE  Books'
  BY <1>8, BooksFrame DEF ChannelRedirect, clientVars, channelVars
<1>9. ASSUME fault = "none", NEW a \in Address, RemoveRedirect(a),
            UNCHANGED clientVars
     PROVE  Books'
  BY <1>9, BooksFrame DEF RemoveRedirect, clientVars, channelVars
<1>10. ASSUME fault = "none", ServiceDefers,
            UNCHANGED clientVars
     PROVE  Books'
  BY <1>10, BooksFrame DEF ServiceDefers, clientVars, channelVars
<1>11. ASSUME fault = "none", NEW a \in Address, Answer(a),
            UNCHANGED clientVars
     PROVE  Books'
  BY <1>11, BooksFrame DEF Answer, Touch, clientVars, channelVars
<1>12. ASSUME fault = "none", NEW a \in Address, CallMethod(a),
            UNCHANGED clientVars
     PROVE  Books'
  BY <1>12, BooksFrame DEF CallMethod, clientVars, channelVars
<1>13. ASSUME fault = "none", NEW a \in Address, Readable(a),
            UNCHANGED clientVars
     PROVE  Books'
  BY <1>13, BooksFrame DEF Readable, Touch, clientVars, channelVars
<1>14. ASSUME fault = "none", NEW a \in Address, TimerLackData(a),
            UNCHANGED clientVars
     PROVE  Books'
  BY <1>14, BooksFrame DEF TimerLackData, clientVars, channelVars
<1>15. ASSUME fault = "none", NEW a \in Address, TimerHandle(a),
            UNCHANGED clientVars
     PROVE  Books'
  BY <1>15, BooksFrame DEF TimerHandle, clientVars, channelVars
<1>16. ASSUME fault = "none", NEW a \in Address, Written(a),
            UNCHANGED clientVars
     PROVE  Books'
  BY <1>16, BooksFrame DEF Written, Touch, clientVars, channelVars
<1>17. ASSUME fault = "none", ServiceAnswers,
            UNCHANGED clientVars
     PROVE  Books'
  BY <1>17, BooksFrame DEF ServiceAnswers, clientVars, channelVars
<1>18. ASSUME fault = "none", TimerReturn,
            UNCHANGED clientVars
     PROVE  Books'
  BY <1>18, BooksFrame DEF TimerReturn, Touch, clientVars, channelVars
<1>19. ASSUME fault = "none", StartIteration,
            UNCHANGED clientVars
     PROVE  Books'
  BY <1>19, BooksFrame DEF StartIteration, clientVars, channelVars
<1>20. ASSUME fault = "none", OnGC,
            UNCHANGED clientVars
     PROVE  Books'
  <2>1. CASE gc
    <3>1. /\ \A a \in Address : object'[a] = IF a \in invalid THEN "none" ELSE object[a]
          /\ invalid' = {} /\ channels' = channels
          /\ UNCHANGED <<connector, connecting, channel>>
      BY <1>20, <2>1 DEF OnGC, clientVars
    <3>2. \A a \in Address : object'[a] = "open" <=> object[a] = "open"
      BY <3>1 DEF Books, ClosedRemembered
    <3>3. OpenIsOwned'
      BY <3>1, <3>2 DEF Books, OpenIsOwned
    <3>4. ClosedRemembered'
      BY <3>1 DEF Books, ClosedRemembered
    <3>5. Attempts'
      BY <3>1 DEF Books, Attempts
    <3> QED
      BY <3>3, <3>4, <3>5 DEF Books
  <2>2. CASE ~gc
    BY <1>20, <2>2, BooksFrame DEF OnGC, clientVars
  <2> QED
    BY <2>1, <2>2
<1>21. ASSUME fault = "none", EndPoll,
            UNCHANGED clientVars
     PROVE  Books'
  BY <1>21, BooksFrame DEF EndPoll, clientVars, channelVars
<1>22. ASSUME fault = "none", RunClosing,
            UNCHANGED clientVars
     PROVE  Books'
  BY <1>22, BooksFrame DEF RunClosing, clientVars, channelVars
<1>23. CASE UNCHANGED vars
  BY <1>23, BooksFrame DEF vars, clientVars, channelVars
<1> QED
  BY <1>1, <1>2, <1>3, <1>4, <1>5, <1>6, <1>7, <1>8, <1>9, <1>10, <1>11,
     <1>12, <1>13, <1>14, <1>15, <1>16, <1>17, <1>18, <1>19, <1>20, <1>21,
     <1>22, <1>23 DEF Next, User, ChannelCallback, Loop, Crashed

(* The part of the books that the steps of a channel need. *)
LEMMA OpenInPool ==
  ASSUME Books
  PROVE  /\ \A a \in Address : object[a] = "open" <=> a \in channels
         /\ \A a \in Address : object[a] = "closed" <=> a \in invalid
         /\ \A k \in Connectors : channel[k] \in Address => channel[k] \in channels
         /\ \A a \in channels : a \in Address => \E k \in Connectors : channel[k] = a
PROOF
  BY DEF Books, OpenIsOwned, ClosedRemembered

(* What leaves channel_ takes its stream and its kept closures along. *)
LEMMA HeldStep ==
  ASSUME TypeOK, Books, Held, [Next]_vars
  PROVE  Held'
PROOF
<1> USE NobodyAssumption DEF loopVars, poolVars, streamVars, closureVars
<1>1. ASSUME fault = "none", NEW k \in Connectors, Connect(k)
     PROVE  Held'
  BY <1>1, OpenInPool DEF Connect, TypeOK, PoolTypeOK, Held, clientVars,
     channelVars
<1>2. ASSUME fault = "none", NEW k \in Connectors, Disconnected(k)
     PROVE  Held'
  BY <1>2, OpenInPool DEF Disconnected, CloseChannels, RemoveChannels, TypeOK,
     PoolTypeOK, Held, clientVars, channelVars
<1>3. ASSUME fault = "none", NEW k \in Connectors, OnConnectFails(k)
     PROVE  Held'
  BY <1>3, OpenInPool DEF OnConnectFails, TypeOK, PoolTypeOK, Held,
     clientVars, channelVars
<1>4. ASSUME fault = "none", NEW k \in Connectors, OnConnectFreed(k)
     PROVE  Held'
  BY <1>4, OpenInPool DEF OnConnectFreed, TypeOK, PoolTypeOK, Held,
     clientVars, channelVars
<1>5. ASSUME fault = "none", NEW k \in Connectors, NEW a \in Address, OnConnect(k, a)
     PROVE  Held'
  BY <1>5, OpenInPool DEF OnConnect, Connected, TypeOK, PoolTypeOK, Held,
     clientVars, channelVars
<1>6. ASSUME fault = "none", Close
     PROVE  Held'
  <2> DEFINE open == {channel[l] : l \in Connectors} \ {Nobody}
  <2>1. channels \subseteq open
    <3> SUFFICES ASSUME NEW a \in channels PROVE a \in open
      OBVIOUS
    <3>1. a \in Address
      BY DEF TypeOK, PoolTypeOK
    <3>2. PICK k \in Connectors : channel[k] = a
      BY <3>1 DEF Books, OpenIsOwned
    <3> QED
      BY <3>1, <3>2
  <2>2. reading' = reading \ open /\ writing' = writing \ open /\ deferred' = deferred \ open
    BY <1>6 DEF Close, CloseChannels
  <2> QED
    BY <1>6, <2>1, <2>2 DEF Held
<1>7. ASSUME fault = "none", CloseFreesTwice
     PROVE  Held'
  BY <1>7, OpenInPool DEF CloseFreesTwice, TypeOK, PoolTypeOK, Held,
     clientVars, channelVars
<1>8. ASSUME fault = "none", NEW a \in Address, NEW b \in Address, NEW force \in BOOLEAN, ChannelRedirect(b, a, force),
            UNCHANGED clientVars
     PROVE  Held'
  BY <1>8, OpenInPool DEF ChannelRedirect, TypeOK, PoolTypeOK, Held,
     clientVars, channelVars
<1>9. ASSUME fault = "none", NEW a \in Address, RemoveRedirect(a),
            UNCHANGED clientVars
     PROVE  Held'
  BY <1>9, OpenInPool DEF RemoveRedirect, TypeOK, PoolTypeOK, Held,
     clientVars, channelVars
<1>10. ASSUME fault = "none", ServiceDefers,
            UNCHANGED clientVars
     PROVE  Held'
  <2>1. handling \in channels
    BY <1>10 DEF ServiceDefers, TypeOK, PoolTypeOK, Books, OpenIsOwned
  <2>2. deferred' = deferred \cup {handling} /\ UNCHANGED <<channels, reading, writing>>
    BY <1>10 DEF ServiceDefers
  <2> QED
    BY <1>10, <2>1, <2>2 DEF Held
<1>11. ASSUME fault = "none", NEW a \in Address, Answer(a),
            UNCHANGED clientVars
     PROVE  Held'
  <2>1. (writing' = writing \cup {a} /\ a \in deferred) \/ writing' = writing
    BY <1>11 DEF Answer
  <2>2. deferred' \subseteq deferred
    BY <1>11 DEF Answer
  <2>3. UNCHANGED <<channels, reading>>
    BY <1>11 DEF Answer
  <2> QED
    BY <1>11, <2>1, <2>2, <2>3 DEF Held
<1>12. ASSUME fault = "none", NEW a \in Address, CallMethod(a),
            UNCHANGED clientVars
     PROVE  Held'
  <2>1. a \in channels
    BY <1>12 DEF CallMethod, Books, OpenIsOwned
  <2>2. writing' = writing \cup {a} /\ UNCHANGED <<channels, reading, deferred>>
    BY <1>12 DEF CallMethod
  <2> QED
    BY <1>12, <2>1, <2>2 DEF Held
<1>13. ASSUME fault = "none", NEW a \in Address, Readable(a),
            UNCHANGED clientVars
     PROVE  Held'
  BY <1>13, OpenInPool DEF Readable, Touch, TypeOK, PoolTypeOK, Held,
     clientVars, channelVars
<1>14. ASSUME fault = "none", NEW a \in Address, TimerLackData(a),
            UNCHANGED clientVars
     PROVE  Held'
  <2>1. fault' = "none" => a \in channels
    <3>1. object[a] \in {"none", "open", "closed"}
      BY DEF TypeOK, PoolTypeOK
    <3>2. fault' = "none" => object[a] = "open"
      BY <1>14, <3>1 DEF TimerLackData
    <3> QED
      BY <3>2, OpenInPool
  <2>2. reading' = reading \cup {a} /\ UNCHANGED <<channels, writing, deferred>>
    BY <1>14 DEF TimerLackData
  <2> QED
    BY <1>14, <2>1, <2>2 DEF Held
<1>15. ASSUME fault = "none", NEW a \in Address, TimerHandle(a),
            UNCHANGED clientVars
     PROVE  Held'
  BY <1>15, OpenInPool DEF TimerHandle, TypeOK, PoolTypeOK, Held, clientVars,
     channelVars
<1>16. ASSUME fault = "none", NEW a \in Address, Written(a),
            UNCHANGED clientVars
     PROVE  Held'
  BY <1>16, OpenInPool DEF Written, Touch, TypeOK, PoolTypeOK, Held,
     clientVars, channelVars
<1>17. ASSUME fault = "none", ServiceAnswers,
            UNCHANGED clientVars
     PROVE  Held'
  <2>1. handling \in channels
    BY <1>17 DEF ServiceAnswers, TypeOK, PoolTypeOK, Books, OpenIsOwned
  <2>2. writing' = writing \cup {handling} /\ UNCHANGED <<channels, reading, deferred>>
    BY <1>17 DEF ServiceAnswers
  <2> QED
    BY <1>17, <2>1, <2>2 DEF Held
<1>18. ASSUME fault = "none", TimerReturn,
            UNCHANGED clientVars
     PROVE  Held'
  BY <1>18, OpenInPool DEF TimerReturn, Touch, TypeOK, PoolTypeOK, Held,
     clientVars, channelVars
<1>19. ASSUME fault = "none", StartIteration,
            UNCHANGED clientVars
     PROVE  Held'
  BY <1>19, OpenInPool DEF StartIteration, TypeOK, PoolTypeOK, Held,
     clientVars, channelVars
<1>20. ASSUME fault = "none", OnGC,
            UNCHANGED clientVars
     PROVE  Held'
  BY <1>20, OpenInPool DEF OnGC, TypeOK, PoolTypeOK, Held, clientVars,
     channelVars
<1>21. ASSUME fault = "none", EndPoll,
            UNCHANGED clientVars
     PROVE  Held'
  BY <1>21, OpenInPool DEF EndPoll, TypeOK, PoolTypeOK, Held, clientVars,
     channelVars
<1>22. ASSUME fault = "none", RunClosing,
            UNCHANGED clientVars
     PROVE  Held'
  BY <1>22, OpenInPool DEF RunClosing, TypeOK, PoolTypeOK, Held, clientVars,
     channelVars
<1>23. CASE UNCHANGED vars
  BY <1>23, OpenInPool DEF vars, TypeOK, PoolTypeOK, Held, clientVars,
     channelVars
<1> QED
  BY <1>1, <1>2, <1>3, <1>4, <1>5, <1>6, <1>7, <1>8, <1>9, <1>10, <1>11,
     <1>12, <1>13, <1>14, <1>15, <1>16, <1>17, <1>18, <1>19, <1>20, <1>21,
     <1>22, <1>23 DEF Next, User, ChannelCallback, Loop, Crashed

(* Under the discipline no step touches what is gone. *)
LEMMA QuietStep ==
  ASSUME TypeOK, Books, Held, Quiet, [Next]_vars
  PROVE  Quiet'
PROOF
<1> USE NobodyAssumption DEF loopVars, poolVars, streamVars, closureVars
<1>1. ASSUME fault = "none", NEW k \in Connectors, Connect(k)
     PROVE  Quiet'
  BY <1>1, OpenInPool DEF Connect, TypeOK, PoolTypeOK, Held, Quiet, UserCode,
     Books, Attempts, clientVars, channelVars
<1>2. ASSUME fault = "none", NEW k \in Connectors, Disconnected(k)
     PROVE  Quiet'
  BY <1>2, OpenInPool DEF Disconnected, CloseChannels, RemoveChannels, TypeOK,
     PoolTypeOK, Held, Quiet, UserCode, Books, Attempts, clientVars,
     channelVars
<1>3. ASSUME fault = "none", NEW k \in Connectors, OnConnectFails(k)
     PROVE  Quiet'
  BY <1>3, OpenInPool DEF OnConnectFails, TypeOK, PoolTypeOK, Held, Quiet,
     UserCode, Books, Attempts, clientVars, channelVars
<1>4. ASSUME fault = "none", NEW k \in Connectors, OnConnectFreed(k)
     PROVE  Quiet'
  BY <1>4, OpenInPool DEF OnConnectFreed, TypeOK, PoolTypeOK, Held, Quiet,
     UserCode, Books, Attempts, clientVars, channelVars
<1>5. ASSUME fault = "none", NEW k \in Connectors, NEW a \in Address, OnConnect(k, a)
     PROVE  Quiet'
  BY <1>5, OpenInPool DEF OnConnect, Connected, TypeOK, PoolTypeOK, Held,
     Quiet, UserCode, Books, Attempts, clientVars, channelVars
<1>6. ASSUME fault = "none", Close
     PROVE  Quiet'
  <2> SUFFICES ASSUME misuse' = {} PROVE Quiet'
    BY DEF Quiet
  <2> DEFINE open == {channel[l] : l \in Connectors} \ {Nobody}
  <2>1. /\ misuse' = misuse \cup Careless /\ connecting' = connecting
        /\ UNCHANGED <<phase, handling>>
    BY <1>6 DEF Close
  <2>2. misuse = {} /\ connecting = {} /\ writing \cup canceled = {} /\ handling = Nobody
    BY <2>1 DEF Careless
  <2>3. /\ timer' = timer \ open
        /\ canceled' = canceled \cup (writing \cap open)
        /\ fault' = IF ~(open \subseteq open) THEN "check"
                    ELSE IF \E a \in open : object[a] = "none" THEN "freed channel"
                    ELSE IF \E a \in open : object[a] = "closed" THEN "null stream" ELSE fault
    BY <1>6 DEF Close, CloseChannels
  <2>4. \A a \in open : object[a] = "open"
    BY DEF Books, OpenIsOwned, TypeOK
  <2>5. fault' = "none"
    BY <1>6, <2>3, <2>4
  <2>6. channels \subseteq open
    <3> SUFFICES ASSUME NEW a \in channels PROVE a \in open
      OBVIOUS
    <3>1. a \in Address
      BY DEF TypeOK, PoolTypeOK
    <3>2. PICK k \in Connectors : channel[k] = a
      BY <3>1 DEF Books, OpenIsOwned
    <3> QED
      BY <3>1, <3>2
  <2>7. timer' = {} /\ canceled' = {}
    BY <2>2, <2>3, <2>6 DEF Quiet
  <2> QED
    BY <2>1, <2>2, <2>5, <2>7 DEF Quiet
<1>7. ASSUME fault = "none", CloseFreesTwice
     PROVE  Quiet'
  BY <1>7, OpenInPool DEF CloseFreesTwice, TypeOK, PoolTypeOK, Held, Quiet,
     UserCode, Books, Attempts, clientVars, channelVars
<1>8. ASSUME fault = "none", NEW a \in Address, NEW b \in Address, NEW force \in BOOLEAN, ChannelRedirect(b, a, force),
            UNCHANGED clientVars
     PROVE  Quiet'
  BY <1>8, OpenInPool DEF ChannelRedirect, TypeOK, PoolTypeOK, Held, Quiet,
     UserCode, clientVars, channelVars
<1>9. ASSUME fault = "none", NEW a \in Address, RemoveRedirect(a),
            UNCHANGED clientVars
     PROVE  Quiet'
  BY <1>9, OpenInPool DEF RemoveRedirect, TypeOK, PoolTypeOK, Held, Quiet,
     UserCode, clientVars, channelVars
<1>10. ASSUME fault = "none", ServiceDefers,
            UNCHANGED clientVars
     PROVE  Quiet'
  BY <1>10, OpenInPool DEF ServiceDefers, TypeOK, PoolTypeOK, Held, Quiet,
     UserCode, clientVars, channelVars
<1>11. ASSUME fault = "none", NEW a \in Address, Answer(a),
            UNCHANGED clientVars
     PROVE  Quiet'
  BY <1>11, OpenInPool DEF Answer, Touch, TypeOK, PoolTypeOK, Held, Quiet,
     UserCode, clientVars, channelVars
<1>12. ASSUME fault = "none", NEW a \in Address, CallMethod(a),
            UNCHANGED clientVars
     PROVE  Quiet'
  BY <1>12, OpenInPool DEF CallMethod, TypeOK, PoolTypeOK, Held, Quiet,
     UserCode, clientVars, channelVars
<1>13. ASSUME fault = "none", NEW a \in Address, Readable(a),
            UNCHANGED clientVars
     PROVE  Quiet'
  <2>1. a \in channels /\ object[a] = "open"
    BY <1>13 DEF Readable, Held, Books, OpenIsOwned
  <2>2. timer' = timer \cup {a} /\ fault' = fault
    BY <1>13, <2>1 DEF Readable, Touch
  <2>3. UNCHANGED <<phase, handling, channels, invalid, canceled, misuse>>
    BY <1>13 DEF Readable
  <2> QED
    BY <1>13, <2>1, <2>2, <2>3 DEF Quiet, clientVars
<1>14. ASSUME fault = "none", NEW a \in Address, TimerLackData(a),
            UNCHANGED clientVars
     PROVE  Quiet'
  BY <1>14, OpenInPool DEF TimerLackData, TypeOK, PoolTypeOK, Held, Quiet,
     UserCode, clientVars, channelVars
<1>15. ASSUME fault = "none", NEW a \in Address, TimerHandle(a),
            UNCHANGED clientVars
     PROVE  Quiet'
  BY <1>15, OpenInPool DEF TimerHandle, TypeOK, PoolTypeOK, Held, Quiet,
     UserCode, clientVars, channelVars
<1>16. ASSUME fault = "none", NEW a \in Address, Written(a),
            UNCHANGED clientVars
     PROVE  Quiet'
  BY <1>16, OpenInPool DEF Written, Touch, TypeOK, PoolTypeOK, Held, Quiet,
     UserCode, clientVars, channelVars
<1>17. ASSUME fault = "none", ServiceAnswers,
            UNCHANGED clientVars
     PROVE  Quiet'
  BY <1>17, OpenInPool DEF ServiceAnswers, TypeOK, PoolTypeOK, Held, Quiet,
     UserCode, clientVars, channelVars
<1>18. ASSUME fault = "none", TimerReturn,
            UNCHANGED clientVars
     PROVE  Quiet'
  <2> SUFFICES ASSUME misuse' = {} PROVE Quiet'
    BY DEF Quiet
  <2>1. UNCHANGED <<phase, channels, invalid, canceled, misuse>>
    BY <1>18 DEF TimerReturn
  <2>2. handling \in channels /\ handling \in Address /\ object[handling] = "open"
    BY <1>18, <2>1 DEF TimerReturn, Quiet, TypeOK, PoolTypeOK, Books, OpenIsOwned
  <2>3. timer' = timer \cup {handling} /\ handling' = Nobody /\ fault' = fault
    BY <1>18, <2>2 DEF TimerReturn, Touch
  <2> QED
    BY <1>18, <2>1, <2>2, <2>3 DEF Quiet, clientVars
<1>19. ASSUME fault = "none", StartIteration,
            UNCHANGED clientVars
     PROVE  Quiet'
  BY <1>19, OpenInPool DEF StartIteration, TypeOK, PoolTypeOK, Held, Quiet,
     UserCode, clientVars, channelVars
<1>20. ASSUME fault = "none", OnGC,
            UNCHANGED clientVars
     PROVE  Quiet'
  BY <1>20, OpenInPool DEF OnGC, TypeOK, PoolTypeOK, Held, Quiet, UserCode,
     clientVars, channelVars
<1>21. ASSUME fault = "none", EndPoll,
            UNCHANGED clientVars
     PROVE  Quiet'
  BY <1>21, OpenInPool DEF EndPoll, TypeOK, PoolTypeOK, Held, Quiet, UserCode,
     clientVars, channelVars
<1>22. ASSUME fault = "none", RunClosing,
            UNCHANGED clientVars
     PROVE  Quiet'
  BY <1>22, OpenInPool DEF RunClosing, TypeOK, PoolTypeOK, Held, Quiet,
     UserCode, clientVars, channelVars
<1>23. CASE UNCHANGED vars
  BY <1>23, OpenInPool DEF vars, TypeOK, PoolTypeOK, Held, Quiet, UserCode,
     clientVars, channelVars
<1> QED
  BY <1>1, <1>2, <1>3, <1>4, <1>5, <1>6, <1>7, <1>8, <1>9, <1>10, <1>11,
     <1>12, <1>13, <1>14, <1>15, <1>16, <1>17, <1>18, <1>19, <1>20, <1>21,
     <1>22, <1>23 DEF Next, User, ChannelCallback, Loop, Crashed

-----------------------------------------------------------------------------
LEMMA IInvInit == Init => IInv
PROOF
<1> SUFFICES ASSUME Init PROVE IInv
  OBVIOUS
<1> USE NobodyAssumption DEF Init, PoolInit
<1>1. TypeOK
  BY DEF TypeOK, PoolTypeOK
<1>2. Books
  BY DEF Books, OpenIsOwned, ClosedRemembered, Attempts
<1>3. Held /\ Quiet
  BY DEF Held, Quiet
<1> QED
  BY <1>1, <1>2, <1>3 DEF IInv

LEMMA IInvInductive == IInv /\ [Next]_vars => IInv'
PROOF
<1> SUFFICES ASSUME IInv, [Next]_vars PROVE IInv'
  OBVIOUS
<1>1. TypeOK /\ Books /\ Held /\ Quiet
  BY DEF IInv
<1>2. TypeOK' BY <1>1, TypeStep
<1>3. Books' BY <1>1, BooksStep
<1>4. Held' BY <1>1, HeldStep
<1>5. Quiet' BY <1>1, QuietStep
<1> QED
  BY <1>2, <1>3, <1>4, <1>5 DEF IInv

THEOREM IInvHolds == Spec => []IInv
PROOF
  BY IInvInit, IInvInductive, PTL DEF Spec

(* Every variable keeps its type, for every set of addresses and Connectors. *)
THEOREM TypeCorrect == Spec => []TypeOK
PROOF
<1>1. IInv => TypeOK BY DEF IInv
<1> QED
  BY <1>1, IInvHolds, PTL

(* The Connectors, the pool and the channels always agree on what is open, *)
(* and no channel has two Connectors: TcpClient::channel hands out open    *)
(* channels only, and the CHECKs of Connector never fail.                  *)
THEOREM BooksAgree == Spec => []OpenIsOwned
PROOF
<1>1. IInv => OpenIsOwned BY DEF IInv, Books
<1> QED
  BY <1>1, IInvHolds, PTL

(* ChannelPool::channel never hands out a closed or a deleted channel, not *)
(* even after ChannelPool::Close.                                          *)
THEOREM LookupIsAlive == Spec => []LookupAlive
PROOF
<1>1. IInv => LookupAlive
  BY NobodyAssumption
  DEF IInv, TypeOK, PoolTypeOK, Books, OpenIsOwned, LookupAlive, Channel
<1> QED
  BY <1>1, IInvHolds, PTL

(* A client that is closed when it is quiet leaves no callback behind that *)
(* touches a deleted channel, a freed request or a stream that is gone.    *)
THEOREM NothingFreedIsTouched == Spec => []NoFault
PROOF
<1>1. IInv => NoFault BY DEF IInv, Quiet, NoFault
<1> QED
  BY <1>1, IInvHolds, PTL

=============================================================================
