\* Two secrets that are saved, renamed and deleted while two clients wait,
\* under a wall clock that may be set back.
SPECIFICATION Spec
CONSTANTS
    Secret = {db, api}
    shell = shell
    toolA = toolA
    toolB = toolB
    launchd = launchd
    Process <- MCProcess
    Launchd = launchd
    Tree <- OneTool
    GrantId = {g1, g2}
    Connection = {c1, c2}
    NoRequest = NoRequest
    MaxTime = 1
    MaxGrant = 1
    DefaultGrant = 1
    GrantExtension = 1
    ClockMayStepBack = TRUE
SYMMETRY NameSymmetry
PROPERTIES
    AutoGrantsAreCovered
    GrantsComeFromTheUser
