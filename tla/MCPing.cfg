SPECIFICATION Spec
CONSTANTS MaxCalls = 3
INVARIANTS NoReplyTwice
PROPERTIES EveryPingReturns
CHECK_DEADLOCK FALSE
