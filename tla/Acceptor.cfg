\* A server with at most two channels at a time, whose user code may do anything.
CONSTANTS
  a1 = a1
  a2 = a2
  Address = {a1, a2}
  Nobody = Nobody
SPECIFICATION FairSpec
INVARIANTS
  TypeOK
  NoFault
  LookupAlive
  OpenIsOwned
  ClosedRemembered
PROPERTIES
  ClosedCollected
