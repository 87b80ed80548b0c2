\* Two clients, one tool: every request is answered, as ApprovalGate promises,
\* also when the clock is set back.
SPECIFICATION Spec
CONSTANTS
    Profile = {prod}
    shell = shell
    tool = tool
    launchd = launchd
    Process <- MCProcess
    Launchd = launchd
    Mortal = {}
    Tree <- ToolOnly
    Connection = {c1, c2}
    NoRequest = NoRequest
    MaxTime = 1
    MaxGrant = 1
    DefaultGrant = 1
    GrantExtension = 1
    ClockMayStepBack = TRUE
PROPERTIES
    ImplementsGate
    EveryRequestIsAnswered
