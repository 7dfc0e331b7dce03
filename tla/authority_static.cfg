CONSTANTS
  a1 = a1
  a2 = a2
  a3 = a3
  b1 = b1
  x = x
  y = y
  z = z
  MaxSeq = 1
  MaxBalance = 3
  Authorities = {a1, a2, a3, b1}
  Faulty = {b1}
  C0 = {a1, a2, a3, b1}
  Observers = {}
  Accounts = {x, y, z}
  Genesis <- MCGenesis
  Orders <- StaticOrders
  Proposals <- None
  Compacting = {a1}
  Crashing = {a1, a2, a3}
SPECIFICATION Spec
SYMMETRY Symmetric
INVARIANTS
  TypeOK NoEquivocation SlotCertUnique EffectUnique RecoveryExact AttestationsDurable SupplyConserved
