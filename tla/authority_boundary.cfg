CONSTANTS
  a1 = a1
  a2 = a2
  a3 = a3
  b1 = b1
  x = x
  y = y
  z = z
  MaxSeq = 1
  MaxBalance = 3
  Authorities = {a1, a2, b1}
  Faulty = {}
  C0 = {a1, a2}
  Observers = {b1}
  Accounts = {x, y, z}
  Genesis <- MCGenesis
  Orders <- ContestedOrders
  Proposals <- HandOver
  Compacting = {}
  Crashing = {}
SPECIFICATION Spec
INVARIANT BoundaryUnique
