\* One job of n1, retried at either of two peers, while sessions break.
SPECIFICATION Spec
CONSTANTS
  n1 = n1
  n2 = n2
  n3 = n3
  j1 = j1
  j2 = j2
  NoNode = NoNode
  Nodes = {n1, n2, n3}
  Jobs = {j1}
  Peers <- Star
  Owner <- OneJob
  QueueLimit = 1
  Retries = 2
  MaxSessions = 2
SYMMETRY PeerSymmetry
INVARIANTS AttemptsExact AnswerFromTarget
CHECK_DEADLOCK FALSE
