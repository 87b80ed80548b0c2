\* Two clients, one process: every request is answered, as ApprovalGate promises.
SPECIFICATION Spec
CONSTANTS
    Secret = {db}
    shell = shell
    toolA = toolA
    toolB = toolB
    launchd = launchd
    Process <- MCProcess
    Launchd = launchd
    Tree <- OneToolOrOrphan
    GrantId = {g1}
    Connection = {c1, c2}
    NoRequest = NoRequest
    MaxTime = 1
    MaxGrant = 1
    DefaultGrant = 1
    GrantExtension = 1
    ClockMayStepBack = FALSE
PROPERTIES
    ImplementsGate
    EveryRequestIsAnswered
