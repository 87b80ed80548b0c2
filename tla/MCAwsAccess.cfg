\* A shell and a tool below it, one profile; the tool may exit at any time.
SPECIFICATION Spec
CONSTANTS
    Profile = {prod}
    shell = shell
    tool = tool
    launchd = launchd
    Process <- MCProcess
    Launchd = launchd
    Mortal = {tool}
    Tree <- ShellAndTool
    Connection = {c1, c2}
    NoRequest = NoRequest
    MaxTime = 1
    MaxGrant = 2
    DefaultGrant = 1
    GrantExtension = 1
    ClockMayStepBack = FALSE
SYMMETRY Symmetry
INVARIANTS
    TypeOK
    NoCoveredPending
    NoContradiction
    LockedHasNoGrants
    NoLostResolution
    AnswersMatchActivity
    RuleLifeIsBounded
PROPERTIES
    GrantsAreInForce
    RevokeEndsScope
