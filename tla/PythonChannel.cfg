\* Two calls one way and one the other way, and a one-way call.
CONSTANTS
  a = a
  b = b
  q1 = q1
  q2 = q2
  q3 = q3
  r1 = r1
  None = None
  Ends = {a, b}
  Peer <- MCPeer
  Calls = {q1, q2, q3, r1}
  Owner <- MCOwner
  Notify = {q3}
  Unknown = {r1}
  Unreadable = {q2}
SPECIFICATION FairSpec
INVARIANTS
  TypeOK
  NoLostCall
  QueueOutlivesGreenlets
PROPERTIES
  ImplementsRpcCalls
  CallsComplete
  EndsTogether
