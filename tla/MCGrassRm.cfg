SPECIFICATION Spec
CONSTANTS
    s1 = s1
    s2 = s2
    u1 = u1
    u2 = u2
    Names = {"a"}
    Base = "repo"
    Sessions = {s1, s2}
    Users = {u1}
    NoUser = NoUser
    Accounts <- OneAccount
    CdArgs <- Around
    MkdirArgs <- UpDown
    RmArgs <- Around
    PutNames = {"a"}
    Writers = {1}
    UninitStat = {TRUE, FALSE}
    Overread = {0}
    InitDirs <- Nested
    InitFiles <- NoFiles
    MaxLength = 2
    MaxDepth = 1
PROPERTIES SealedStays Answered
CHECK_DEADLOCK FALSE
