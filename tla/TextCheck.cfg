SPECIFICATION TextSpec
CONSTANTS
    Names = {"a", "repo"}
    Base = "repo"
    MaxCwd = 2
    MaxArg = 5
    MaxText = 7
    MaxWords = 4
    MaxConf = 4
INVARIANTS ResolveIsWalk SplitIsWords LinesUnderstood OnePasswordEach
CHECK_DEADLOCK FALSE
