--------------------------- MODULE AcceptorProofs ---------------------------
(***************************************************************************)
(* Proofs about Acceptor, for every set of addresses.  The books of the    *)
(* factory and of the pool agree whatever user code does; what still       *)
(* points at a channel is bounded by them as long as user code keeps to    *)
(* its discipline.                                                         *)
(***************************************************************************)
EXTENDS Acceptor, TLAPS

(* What points at a channel without user code being to blame: streams that *)
(* are read, writes and kept closures are those of open channels.          *)
Held ==
  /\ fault = "none" => reading \subseteq channels
  /\ writing \subseteq channels
  /\ deferred \subseteq channels

(* Under the discipline: timers run on open channels only, and a channel   *)
(* with a canceled write is not deleted before the write is called back,   *)
(* since it was closed in the poll phase.                                  *)
Quiet ==
  misuse = {} =>
    /\ fault = "none"
    /\ timer \subseteq channels
    /\ canceled \subseteq invalid
    /\ canceled # {} => phase \in {"poll", "closing"}
    /\ handling # Nobody => handling \in channels /\ phase = "timers"

Books == OpenIsOwned /\ ClosedRemembered

IInv == TypeOK /\ Books /\ Held /\ Quiet

-----------------------------------------------------------------------------
(* Every step keeps the types. *)
LEMMA TypeStep ==
  ASSUME TypeOK, [Next]_vars
  PROVE  TypeOK'
PROOF
<1> USE NobodyAssumption DEF TypeOK, PoolTypeOK, channelVars, loopVars,
     poolVars, streamVars, closureVars
<1>1. ASSUME fault = "none", NEW a \in Address, OnAccept(a)
     PROVE  TypeOK'
  BY <1>1 DEF OnAccept, Connected
<1>2. ASSUME fault = "none", NEW a \in Address, Disconnected(a)
     PROVE  TypeOK'
  BY <1>2 DEF Disconnected, CloseChannels, RemoveChannels
<1>3. ASSUME fault = "none", Close
     PROVE  TypeOK'
  BY <1>3 DEF Close, CloseChannels, RemoveChannels
<1>4. ASSUME fault = "none", Redirect,
            UNCHANGED <<accepted, handle>>
     PROVE  TypeOK'
  <2>1. ASSUME NEW b \in Address, NEW c \in Address, NEW force \in BOOLEAN,
               ChannelRedirect(c, b, force)
        PROVE  TypeOK'
    BY <1>4, <2>1 DEF ChannelRedirect
  <2>2. ASSUME NEW b \in Address, RemoveRedirect(b)
        PROVE  TypeOK'
    BY <1>4, <2>2 DEF RemoveRedirect
  <2> HIDE DEF TypeOK, PoolTypeOK
  <2> QED
    BY <1>4, <2>1, <2>2 DEF Redirect
<1>5. ASSUME fault = "none", ServiceDefers,
            UNCHANGED <<accepted, handle>>
     PROVE  TypeOK'
  BY <1>5 DEF ServiceDefers
<1>6. ASSUME fault = "none", NEW a \in Address, Answer(a),
            UNCHANGED <<accepted, handle>>
     PROVE  TypeOK'
  BY <1>6 DEF Answer, Touch
<1>7. ASSUME fault = "none", NEW a \in Address, CallMethod(a),
            UNCHANGED <<accepted, handle>>
     PROVE  TypeOK'
  BY <1>7 DEF CallMethod
<1>8. ASSUME fault = "none", NEW a \in Address, Readable(a),
            UNCHANGED <<accepted, handle>>
     PROVE  TypeOK'
  BY <1>8 DEF Readable, Touch
<1>9. ASSUME fault = "none", NEW a \in Address, TimerLackData(a),
            UNCHANGED <<accepted, handle>>
     PROVE  TypeOK'
  BY <1>9 DEF TimerLackData
<1>10. ASSUME fault = "none", NEW a \in Address, TimerHandle(a),
            UNCHANGED <<accepted, handle>>
     PROVE  TypeOK'
  BY <1>10 DEF TimerHandle
<1>11. ASSUME fault = "none", NEW a \in Address, Written(a),
            UNCHANGED <<accepted, handle>>
     PROVE  TypeOK'
  BY <1>11 DEF Written, Touch
<1>12. ASSUME fault = "none", ServiceAnswers,
            UNCHANGED <<accepted, handle>>
     PROVE  TypeOK'
  BY <1>12 DEF ServiceAnswers
<1>13. ASSUME fault = "none", TimerReturn,
            UNCHANGED <<accepted, handle>>
     PROVE  TypeOK'
  BY <1>13 DEF TimerReturn, Touch
<1>14. ASSUME fault = "none", StartIteration,
            UNCHANGED <<accepted, handle>>
     PROVE  TypeOK'
  BY <1>14 DEF StartIteration
<1>15. ASSUME fault = "none", OnGC,
            UNCHANGED <<accepted, handle>>
     PROVE  TypeOK'
  BY <1>15 DEF OnGC
<1>16. ASSUME fault = "none", EndPoll,
            UNCHANGED <<accepted, handle>>
     PROVE  TypeOK'
  BY <1>16 DEF EndPoll
<1>17. ASSUME fault = "none", RunClosing,
            UNCHANGED <<accepted, handle>>
     PROVE  TypeOK'
  BY <1>17 DEF RunClosing
<1>18. CASE UNCHANGED vars
  BY <1>18 DEF vars
<1> QED
  BY <1>1, <1>2, <1>3, <1>4, <1>5, <1>6, <1>7, <1>8, <1>9, <1>10, <1>11,
     <1>12, <1>13, <1>14, <1>15, <1>16, <1>17, <1>18 DEF Next, Service,
     ChannelCallback, Loop, Crashed

(* Every step keeps the books in agreement: a channel is closed, dropped by *)
(* the factory and moved from channel_ to channel_invalid_ in one.          *)
LEMMA BooksStep ==
  ASSUME TypeOK, Books, Held, [Next]_vars
  PROVE  Books'
PROOF
<1> USE NobodyAssumption DEF TypeOK, PoolTypeOK, Books, OpenIsOwned,
     ClosedRemembered, Held, channelVars, loopVars, poolVars, streamVars,
     closureVars
<1>1. ASSUME fault = "none", NEW a \in Address, OnAccept(a)
     PROVE  Books'
  BY <1>1 DEF OnAccept, Connected
<1>2. ASSUME fault = "none", NEW a \in Address, Disconnected(a)
     PROVE  Books'
  BY <1>2 DEF Disconnected, CloseChannels, RemoveChannels
<1>3. ASSUME fault = "none", Close
     PROVE  Books'
  BY <1>3 DEF Close, CloseChannels, RemoveChannels
<1>4. ASSUME fault = "none", Redirect,
            UNCHANGED <<accepted, handle>>
     PROVE  Books'
  BY <1>4 DEF Redirect, ChannelRedirect, RemoveRedirect
<1>5. ASSUME fault = "none", ServiceDefers,
            UNCHANGED <<accepted, handle>>
     PROVE  Books'
  BY <1>5 DEF ServiceDefers
<1>6. ASSUME fault = "none", NEW a \in Address, Answer(a),
            UNCHANGED <<accepted, handle>>
     PROVE  Books'
  BY <1>6 DEF Answer, Touch
<1>7. ASSUME fault = "none", NEW a \in Address, CallMethod(a),
            UNCHANGED <<accepted, handle>>
     PROVE  Books'
  BY <1>7 DEF CallMethod
<1>8. ASSUME fault = "none", NEW a \in Address, Readable(a),
            UNCHANGED <<accepted, handle>>
     PROVE  Books'
  BY <1>8 DEF Readable, Touch
<1>9. ASSUME fault = "none", NEW a \in Address, TimerLackData(a),
            UNCHANGED <<accepted, handle>>
     PROVE  Books'
  BY <1>9 DEF TimerLackData
<1>10. ASSUME fault = "none", NEW a \in Address, TimerHandle(a),
            UNCHANGED <<accepted, handle>>
     PROVE  Books'
  BY <1>10 DEF TimerHandle
<1>11. ASSUME fault = "none", NEW a \in Address, Written(a),
            UNCHANGED <<accepted, handle>>
     PROVE  Books'
  BY <1>11 DEF Written, Touch
<1>12. ASSUME fault = "none", ServiceAnswers,
            UNCHANGED <<accepted, handle>>
     PROVE  Books'
  BY <1>12 DEF ServiceAnswers
<1>13. ASSUME fault = "none", TimerReturn,
            UNCHANGED <<accepted, handle>>
     PROVE  Books'
  BY <1>13 DEF TimerReturn, Touch
<1>14. ASSUME fault = "none", StartIteration,
            UNCHANGED <<accepted, handle>>
     PROVE  Books'
  BY <1>14 DEF StartIteration
<1>15. ASSUME fault = "none", OnGC,
            UNCHANGED <<accepted, handle>>
     PROVE  Books'
  <2>1. CASE gc
    <3>1. /\ object' = [a \in Address |-> IF a \in invalid THEN "none" ELSE object[a]]
          /\ invalid' = {} /\ channels' = channels /\ accepted' = accepted
      BY <1>15, <2>1 DEF OnGC
    <3>2. \A a \in Address : object'[a] = IF a \in invalid THEN "none" ELSE object[a]
      BY <3>1
    <3> QED
      BY <3>1, <3>2
  <2>2. CASE ~gc
    BY <1>15, <2>2 DEF OnGC
  <2> QED
    BY <2>1, <2>2
<1>16. ASSUME fault = "none", EndPoll,
            UNCHANGED <<accepted, handle>>
     PROVE  Books'
  BY <1>16 DEF EndPoll
<1>17. ASSUME fault = "none", RunClosing,
            UNCHANGED <<accepted, handle>>
     PROVE  Books'
  BY <1>17 DEF RunClosing
<1>18. CASE UNCHANGED vars
  BY <1>18 DEF vars
<1> QED
  BY <1>1, <1>2, <1>3, <1>4, <1>5, <1>6, <1>7, <1>8, <1>9, <1>10, <1>11,
     <1>12, <1>13, <1>14, <1>15, <1>16, <1>17, <1>18 DEF Next, Service,
     ChannelCallback, Loop, Crashed

(* What leaves channel_ takes its stream and its kept closures along.       *)
LEMMA HeldStep ==
  ASSUME TypeOK, Books, Held, [Next]_vars
  PROVE  Held'
PROOF
<1> USE NobodyAssumption DEF TypeOK, PoolTypeOK, Books, OpenIsOwned,
     ClosedRemembered, Held, channelVars, loopVars, poolVars, streamVars,
     closureVars
<1>1. ASSUME fault = "none", NEW a \in Address, OnAccept(a)
     PROVE  Held'
  BY <1>1 DEF OnAccept, Connected
<1>2. ASSUME fault = "none", NEW a \in Address, Disconnected(a)
     PROVE  Held'
  BY <1>2 DEF Disconnected, CloseChannels, RemoveChannels
<1>3. ASSUME fault = "none", Close
     PROVE  Held'
  BY <1>3 DEF Close, CloseChannels, RemoveChannels
<1>4. ASSUME fault = "none", Redirect,
            UNCHANGED <<accepted, handle>>
     PROVE  Held'
  BY <1>4 DEF Redirect, ChannelRedirect, RemoveRedirect
<1>5. ASSUME fault = "none", ServiceDefers,
            UNCHANGED <<accepted, handle>>
     PROVE  Held'
  BY <1>5 DEF ServiceDefers
<1>6. ASSUME fault = "none", NEW a \in Address, Answer(a),
            UNCHANGED <<accepted, handle>>
     PROVE  Held'
  <2>1. (writing' = writing \cup {a} /\ a \in deferred) \/ writing' = writing
    BY <1>6 DEF Answer
  <2>2. deferred' \in {deferred, deferred \ {a}} \/ deferred' = deferred
    BY <1>6 DEF Answer
  <2>3. channels' = channels /\ reading' = reading
    BY <1>6 DEF Answer
  <2> QED
    BY <1>6, <2>1, <2>2, <2>3
<1>7. ASSUME fault = "none", NEW a \in Address, CallMethod(a),
            UNCHANGED <<accepted, handle>>
     PROVE  Held'
  BY <1>7 DEF CallMethod
<1>8. ASSUME fault = "none", NEW a \in Address, Readable(a),
            UNCHANGED <<accepted, handle>>
     PROVE  Held'
  BY <1>8 DEF Readable, Touch
<1>9. ASSUME fault = "none", NEW a \in Address, TimerLackData(a),
            UNCHANGED <<accepted, handle>>
     PROVE  Held'
  BY <1>9 DEF TimerLackData
<1>10. ASSUME fault = "none", NEW a \in Address, TimerHandle(a),
            UNCHANGED <<accepted, handle>>
     PROVE  Held'
  BY <1>10 DEF TimerHandle
<1>11. ASSUME fault = "none", NEW a \in Address, Written(a),
            UNCHANGED <<accepted, handle>>
     PROVE  Held'
  BY <1>11 DEF Written, Touch
<1>12. ASSUME fault = "none", ServiceAnswers,
            UNCHANGED <<accepted, handle>>
     PROVE  Held'
  BY <1>12 DEF ServiceAnswers
<1>13. ASSUME fault = "none", TimerReturn,
            UNCHANGED <<accepted, handle>>
     PROVE  Held'
  BY <1>13 DEF TimerReturn, Touch
<1>14. ASSUME fault = "none", StartIteration,
            UNCHANGED <<accepted, handle>>
     PROVE  Held'
  BY <1>14 DEF StartIteration
<1>15. ASSUME fault = "none", OnGC,
            UNCHANGED <<accepted, handle>>
     PROVE  Held'
  BY <1>15 DEF OnGC
<1>16. ASSUME fault = "none", EndPoll,
            UNCHANGED <<accepted, handle>>
     PROVE  Held'
  BY <1>16 DEF EndPoll
<1>17. ASSUME fault = "none", RunClosing,
            UNCHANGED <<accepted, handle>>
     PROVE  Held'
  BY <1>17 DEF RunClosing
<1>18. CASE UNCHANGED vars
  BY <1>18 DEF vars
<1> QED
  BY <1>1, <1>2, <1>3, <1>4, <1>5, <1>6, <1>7, <1>8, <1>9, <1>10, <1>11,
     <1>12, <1>13, <1>14, <1>15, <1>16, <1>17, <1>18 DEF Next, Service,
     ChannelCallback, Loop, Crashed

(* Under the discipline no step touches what is gone: a channel is closed in *)
(* the poll phase, after which its writes are called back before OnGC runs,  *)
(* and no OnTimer is under way.                                              *)
LEMMA QuietStep ==
  ASSUME TypeOK, Books, Held, Quiet, [Next]_vars
  PROVE  Quiet'
PROOF
<1> USE NobodyAssumption DEF TypeOK, PoolTypeOK, Books, OpenIsOwned,
     ClosedRemembered, Held, Quiet, UserCode, channelVars, loopVars, poolVars,
     streamVars, closureVars
<1>1. ASSUME fault = "none", NEW a \in Address, OnAccept(a)
     PROVE  Quiet'
  BY <1>1 DEF OnAccept, Connected
<1>2. ASSUME fault = "none", NEW a \in Address, Disconnected(a)
     PROVE  Quiet'
  BY <1>2 DEF Disconnected, CloseChannels, RemoveChannels
<1>3. ASSUME fault = "none", Close
     PROVE  Quiet'
  BY <1>3 DEF Close, CloseChannels, RemoveChannels
<1>4. ASSUME fault = "none", Redirect,
            UNCHANGED <<accepted, handle>>
     PROVE  Quiet'
  BY <1>4 DEF Redirect, ChannelRedirect, RemoveRedirect
<1>5. ASSUME fault = "none", ServiceDefers,
            UNCHANGED <<accepted, handle>>
     PROVE  Quiet'
  BY <1>5 DEF ServiceDefers
<1>6. ASSUME fault = "none", NEW a \in Address, Answer(a),
            UNCHANGED <<accepted, handle>>
     PROVE  Quiet'
  BY <1>6 DEF Answer, Touch
<1>7. ASSUME fault = "none", NEW a \in Address, CallMethod(a),
            UNCHANGED <<accepted, handle>>
     PROVE  Quiet'
  BY <1>7 DEF CallMethod
<1>8. ASSUME fault = "none", NEW a \in Address, Readable(a),
            UNCHANGED <<accepted, handle>>
     PROVE  Quiet'
  BY <1>8 DEF Readable, Touch
<1>9. ASSUME fault = "none", NEW a \in Address, TimerLackData(a),
            UNCHANGED <<accepted, handle>>
     PROVE  Quiet'
  BY <1>9 DEF TimerLackData
<1>10. ASSUME fault = "none", NEW a \in Address, TimerHandle(a),
            UNCHANGED <<accepted, handle>>
     PROVE  Quiet'
  BY <1>10 DEF TimerHandle
<1>11. ASSUME fault = "none", NEW a \in Address, Written(a),
            UNCHANGED <<accepted, handle>>
     PROVE  Quiet'
  BY <1>11 DEF Written, Touch
<1>12. ASSUME fault = "none", ServiceAnswers,
            UNCHANGED <<accepted, handle>>
     PROVE  Quiet'
  BY <1>12 DEF ServiceAnswers
<1>13. ASSUME fault = "none", TimerReturn,
            UNCHANGED <<accepted, handle>>
     PROVE  Quiet'
  BY <1>13 DEF TimerReturn, Touch
<1>14. ASSUME fault = "none", StartIteration,
            UNCHANGED <<accepted, handle>>
     PROVE  Quiet'
  BY <1>14 DEF StartIteration
<1>15. ASSUME fault = "none", OnGC,
            UNCHANGED <<accepted, handle>>
     PROVE  Quiet'
  BY <1>15 DEF OnGC
<1>16. ASSUME fault = "none", EndPoll,
            UNCHANGED <<accepted, handle>>
     PROVE  Quiet'
  BY <1>16 DEF EndPoll
<1>17. ASSUME fault = "none", RunClosing,
            UNCHANGED <<accepted, handle>>
     PROVE  Quiet'
  BY <1>17 DEF RunClosing
<1>18. CASE UNCHANGED vars
  BY <1>18 DEF vars
<1> QED
  BY <1>1, <1>2, <1>3, <1>4, <1>5, <1>6, <1>7, <1>8, <1>9, <1>10, <1>11,
     <1>12, <1>13, <1>14, <1>15, <1>16, <1>17, <1>18 DEF Next, Service,
     ChannelCallback, Loop, Crashed

-----------------------------------------------------------------------------
LEMMA IInvInit == Init => IInv
PROOF
  BY NobodyAssumption
  DEF Init, PoolInit, IInv, TypeOK, PoolTypeOK, Books, OpenIsOwned, ClosedRemembered,
      Held, Quiet

LEMMA IInvInductive == IInv /\ [Next]_vars => IInv'
PROOF
<1> SUFFICES ASSUME IInv, [Next]_vars PROVE IInv'
  OBVIOUS
<1>1. TypeOK /\ Books /\ Held /\ Quiet
  BY DEF IInv
<1>2. TypeOK' BY <1>1, TypeStep
<1>3. Books' BY <1>1, BooksStep
<1>4. Held' BY <1>1, HeldStep
<1>5. Quiet' BY <1>1, QuietStep
<1> QED
  BY <1>2, <1>3, <1>4, <1>5 DEF IInv

THEOREM IInvHolds == Spec => []IInv
PROOF
  BY IInvInit, IInvInductive, PTL DEF Spec

(* Every variable keeps its type, for every set of addresses. *)
THEOREM TypeCorrect == Spec => []TypeOK
PROOF
<1>1. IInv => TypeOK BY DEF IInv
<1> QED
  BY <1>1, IInvHolds, PTL

(* The factory, the pool and the channels always agree on what is open: no *)
(* CHECK of AddChannel, Connected or Disconnected can fail.                *)
THEOREM BooksAgree == Spec => []OpenIsOwned
PROOF
<1>1. IInv => OpenIsOwned BY DEF IInv, Books
<1> QED
  BY <1>1, IInvHolds, PTL

(* A closed channel waits in channel_invalid_ until OnGC deletes it, and *)
(* nothing else does: none leaks and none is deleted twice.              *)
THEOREM NoChannelLeaks == Spec => []ClosedRemembered
PROOF
<1>1. IInv => ClosedRemembered BY DEF IInv, Books
<1> QED
  BY <1>1, IInvHolds, PTL

(* ChannelPool::channel never hands out a closed or a deleted channel, *)
(* whatever redirect rules user code has made.                         *)
THEOREM LookupIsAlive == Spec => []LookupAlive
PROOF
<1>1. IInv => LookupAlive
  BY NobodyAssumption
  DEF IInv, TypeOK, PoolTypeOK, Books, OpenIsOwned, LookupAlive, Channel
<1> QED
  BY <1>1, IInvHolds, PTL

(* As long as user code keeps to its discipline no callback touches a *)
(* deleted channel or a stream that is gone.                          *)
THEOREM NothingFreedIsTouched == Spec => []NoFault
PROOF
<1>1. IInv => NoFault BY DEF IInv, Quiet, NoFault
<1> QED
  BY <1>1, IInvHolds, PTL

=============================================================================
