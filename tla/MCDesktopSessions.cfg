SPECIFICATION Spec
CONSTANTS
  c1 = c1  c2 = c2
  k1 = k1  k2 = k2  k3 = k3
  Session = {s1, s2}
  Resource = {r1, r2}
  Key = {k1, k2, k3}
  Connection = {c1, c2}
  ConnectionOf <- MCConnectionOf
  Reusable = {c1}
  Reclaimer = Reclaimer
  MaxIdle = 1
  NoRow = NoRow
  NoKey = NoKey
  NoResource = NoResource
INVARIANTS
  LeaseHeldByOneTask OpenSessionIsUsable NoOrphanConnection
  ClosedSessionHoldsNothing BindingNeverDangles OpenSessionStaysBound
  PoolWithinCap
PROPERTIES RowOutlivesConnection NoReissueAfterDoubt ImplementsCustody
SYMMETRY Symmetry
