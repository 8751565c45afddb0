\* What options.proto says of the closure of a one-way call.
CONSTANTS
  a = a
  b = b
  q1 = q1
  q2 = q2
  q3 = q3
  r1 = r1
  Ends = {a, b}
  Peer <- MCPeer
  Calls = {q1}
  Owner <- MCOwner
  Notify = {q1}
  Unknown = {}
  NotInserted = {}
  Faults = {}
SPECIFICATION Spec
INVARIANTS
  NotifyNeedsNoClosure
