\* A grant is revoked while the thread it approved waits or signs in.
SPECIFICATION Spec
CONSTANTS
    Helper = {h1}
    SignIn = {s1}
    Portal = {work, home}
    Account = {prod}
    MaxIssued = 2
    NoToken = NoToken
    NoSettings = NoSettings
    NoThread = NoThread
PROPERTY
    IssuedUnderGrant
