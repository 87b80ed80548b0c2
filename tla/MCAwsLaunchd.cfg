\* A client adopted by launchd asks, and nobody answers it.
SPECIFICATION Spec
CONSTANTS
    Profile = {prod}
    shell = shell
    tool = tool
    launchd = launchd
    Process <- MCProcess
    Launchd = launchd
    Mortal = {}
    Tree <- WithOrphan
    Connection = {c1, c2}
    NoRequest = NoRequest
    MaxTime = 0
    MaxGrant = 1
    DefaultGrant = 1
    GrantExtension = 1
    ClockMayStepBack = FALSE
INVARIANT
    LaunchdIsNoBoundary
