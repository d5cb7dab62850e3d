SPECIFICATION MCSpec
CONSTANTS
    s1 = s1
    s2 = s2
    Sessions = {s1, s2}
    MaxTransfers = 2
    MaxPort = 1
    Places = {"f"}
    OldPlace = "f"
    OldSize = 1
    Sizes = {1, 3}
INVARIANTS BarrierKept AnswersInOrder PutsWhole PutsTheirOwn GetsWhole
PROPERTIES GetReturns TransferAnswered RemovedStaysAway ImplementsExchange
CHECK_DEADLOCK FALSE
