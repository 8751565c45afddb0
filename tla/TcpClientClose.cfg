\* What the hello example does: the client is closed in a done closure.
CONSTANTS
  a1 = a1
  a2 = a2
  k1 = k1
  k2 = k2
  k3 = k3
  Address = {a1, a2}
  Nobody = Nobody
  Connectors = {k1, k2, k3}
SPECIFICATION Spec
INVARIANTS
  CloseInDoneIsSafe
