SPECIFICATION Spec
CONSTANTS MaxCalls = 2
PROPERTIES ErrorMeansNoReply
CHECK_DEADLOCK FALSE
