SPECIFICATION Spec
CONSTANTS
    s1 = s1
    s2 = s2
    Sessions = {s1, s2}
    MaxTransfers = 2
    MaxPort = 2
INVARIANTS ServesItsClient
CHECK_DEADLOCK FALSE
