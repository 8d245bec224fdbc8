CONSTANTS
    Nodes = {1, 2, 3}
    Absent = {3}
    Stranger = 9
    Slots = {1, 2}
    MaxFaults = 2
SPECIFICATION Spec
INVARIANTS ConnectionsAccounted NoMissedPeer
PROPERTY PairsReconnect
CHECK_DEADLOCK FALSE
