SPECIFICATION Spec
CONSTANTS
    Letters = {"a", "b"}
    GetLines <- A
    PutLines <- B
    PortText <- PortTexts
    NewLine = "newline"
    EOT = "eot"
    ServerBuffer = 3
    ClientBuffer = 2
    MaxLine = 2
    MaxAnswer = 1
    MaxCommands = 3
INVARIANTS PortsGetThreads
PROPERTIES ImplementsDialogue ClientGoesOn
CHECK_DEADLOCK FALSE
