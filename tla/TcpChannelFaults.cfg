\* An answered and a one-way call, and one that is dropped; sends may fail.
CONSTANTS
  a = a
  b = b
  q1 = q1
  q2 = q2
  q3 = q3
  r1 = r1
  Ends = {a, b}
  Peer <- MCPeer
  Calls = {q1, q2, r1}
  Owner <- MCOwner
  Notify = {q2}
  Unknown = {r1}
  NotInserted = {}
  Faults = {"send"}
SPECIFICATION FairSpec
PROPERTIES
  ImplementsRpcCalls
  CallsEndWithConnection
  CallsComplete
