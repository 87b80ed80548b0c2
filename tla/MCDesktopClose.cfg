SPECIFICATION Spec
CONSTANTS
    c1 = c1
    c2 = c2
    Conn = {c1, c2}
    Aws = {c1}
    NoConn = NoConn
    ProcessOf <- MCProcessOf
    Pid = {1, 2, 3, 4}
    Root = 1
    Limit = 3
    MaxConnections = 2
    MaxLeaks = 1
    Times = {1, 2}
INVARIANT
    CloseAffectsTheShown
