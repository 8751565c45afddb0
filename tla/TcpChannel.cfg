\* Two calls of a and one of b race on a connection that either end may close and
\* that may break; services answer in any order, a call may fail to be sent.
CONSTANTS
  a = a
  b = b
  q1 = q1
  q2 = q2
  q3 = q3
  r1 = r1
  Ends = {a, b}
  Peer <- MCPeer
  Calls = {q1, q2, r1}
  Owner <- MCOwner
  Notify = {}
  Unknown = {}
  NotInserted = {r1}
  Faults = {"send", "serve", "answer"}
SPECIFICATION Spec
INVARIANTS
  TypeOK
  DoneOnce
  WaitsIffRegistered
  ReplyMatchesCall
  ExecutedAtMostOnce
  NoWriteOnClosed
  SchedulerAlive
PROPERTIES
  ServedInOrder
