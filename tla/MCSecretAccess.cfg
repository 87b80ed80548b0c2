\* Two clients under one shell ask for one secret; the clock only moves on.
SPECIFICATION Spec
CONSTANTS
    Secret = {db}
    shell = shell
    toolA = toolA
    toolB = toolB
    launchd = launchd
    Process <- MCProcess
    Launchd = launchd
    Tree <- TwoTools
    GrantId = {g1, g2}
    Connection = {c1, c2}
    NoRequest = NoRequest
    MaxTime = 3
    MaxGrant = 2
    DefaultGrant = 1
    GrantExtension = 1
    ClockMayStepBack = FALSE
SYMMETRY Symmetry
INVARIANTS
    TypeOK
    SessionsAreSeparate
    NoCoveredPending
    OneGrantPerScope
    NoLostResolution
    AnswersMatchActivity
    GrantLifeIsBounded
