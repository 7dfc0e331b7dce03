CONSTANTS
  a1 = a1
  a2 = a2
  a3 = a3
  b1 = b1
  x = x
  y = y
  z = z
  MaxSeq = 2
  MaxBalance = 3
  Authorities = {a1, b1}
  Faulty = {}
  C0 = {a1}
  Observers = {b1}
  Accounts = {x, y, z}
  Genesis <- MCGenesis
  Orders <- EpochOrders
  Proposals <- TwoSwaps
  Compacting = {}
  Crashing = {b1}
SPECIFICATION Spec
INVARIANT NoEquivocation
