\* A client with two calls and a one-way call, which the server calls too, on
\* connections that may be cut anywhere.
CONSTANTS
  c1 = c1
  c2 = c2
  post = post
  s1 = s1
  Calls = {c1, c2, post}
  ServerCalls = {s1}
  Method <- MCMethod
  OneWay = {post}
  Failing = {c2}
  Prefix = 1
  Body = 1
  ReceiveBuffer = 2
  Reconnects <- Forever
  MaxEnds = 1
SPECIFICATION FairSpec
INVARIANTS
  TypeOK
  OwnAnswer
  StreamsInOrder
PROPERTIES
  CallsComplete
CHECK_DEADLOCK FALSE
