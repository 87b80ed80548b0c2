\* A credential request and the sign-in button share one session; the vault is
\* locked, the connection changed and accounts are named in between.
SPECIFICATION Spec
CONSTANTS
    Helper = {h1}
    SignIn = {s1}
    Portal = {work, home}
    Account = {prod}
    MaxIssued = 3
    NoToken = NoToken
    NoSettings = NoSettings
    NoThread = NoThread
INVARIANTS
    TypeOK
    StatusIsBacked
    SessionSurvives
    TokenMatchesPortal
PROPERTIES
    SettingsStayTheUsers
    SuccessIsSaved
    OperationsEnd
