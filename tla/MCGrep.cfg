SPECIFICATION Spec
CONSTANTS
    Names = {"a", "b", "d", ".e"}
    Hidden = {".e"}
    Paths <- FewPaths
INVARIANTS
    FindsAll
    FindsOnly
PROPERTIES
    GrepAnswers
CHECK_DEADLOCK FALSE
