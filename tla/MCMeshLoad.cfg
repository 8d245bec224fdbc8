\* Two jobs of n1 compete for one place at each of two nodes.
SPECIFICATION Spec
CONSTANTS
  n1 = n1
  n2 = n2
  n3 = n3
  j1 = j1
  j2 = j2
  NoNode = NoNode
  Nodes = {n1, n2}
  Jobs = {j1, j2}
  Peers <- Pair
  Owner <- OneOwner
  QueueLimit = 1
  Retries = 1
  MaxSessions = 1
SYMMETRY JobSymmetry
INVARIANTS RequestAccounted
CHECK_DEADLOCK FALSE
