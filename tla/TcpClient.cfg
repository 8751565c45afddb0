\* Three connection attempts, two channels at a time; user code may do anything.
CONSTANTS
  a1 = a1
  a2 = a2
  k1 = k1
  k2 = k2
  k3 = k3
  Address = {a1, a2}
  Nobody = Nobody
  Connectors = {k1, k2, k3}
SPECIFICATION Spec
INVARIANTS
  NoFault
  OpenIsOwned
