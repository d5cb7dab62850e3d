SPECIFICATION Spec
CONSTANTS
    s1 = s1
    s2 = s2
    u1 = u1
    u2 = u2
    Names = {"a"}
    Base = "repo"
    Sessions = {s1, s2}
    Users = {u1, u2}
    NoUser = NoUser
    Accounts <- OwnAccounts
    CdArgs <- Down
    MkdirArgs <- Nothing
    RmArgs <- Down
    PutNames = {}
    Writers = {}
    UninitStat = {TRUE, FALSE}
    Overread = {0}
    InitDirs <- BaseAndA
    InitFiles <- NoFiles
    MaxLength = 2
    MaxDepth = 2
PROPERTIES NotRemovedWhileOccupied
CHECK_DEADLOCK FALSE
