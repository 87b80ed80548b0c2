\* Two clients of one tool ask for two profiles.
SPECIFICATION Spec
CONSTANTS
    Profile = {prod, test}
    shell = shell
    tool = tool
    launchd = launchd
    Process <- MCProcess
    Launchd = launchd
    Mortal = {}
    Tree <- ToolOnly
    Connection = {c1, c2}
    NoRequest = NoRequest
    MaxTime = 0
    MaxGrant = 1
    DefaultGrant = 1
    GrantExtension = 1
    ClockMayStepBack = FALSE
SYMMETRY ProfileSymmetry
PROPERTIES
    GrantsAreInForce
