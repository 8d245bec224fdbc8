\* Each of two nodes submits a job; both have room for both.
SPECIFICATION CalmSpec
CONSTANTS
  n1 = n1
  n2 = n2
  n3 = n3
  j1 = j1
  j2 = j2
  NoNode = NoNode
  Nodes = {n1, n2}
  Jobs = {j1, j2}
  Peers <- Pair
  Owner <- TwoOwners
  QueueLimit = 2
  Retries = 0
  MaxSessions = 1
PROPERTIES EverySubmitAnswered
CHECK_DEADLOCK FALSE
