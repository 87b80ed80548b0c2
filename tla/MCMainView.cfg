SPECIFICATION ViewSpec
CONSTANTS
    Name = {n1, n2}
    Value = {v1}
    Key = {k1, k2}
    Missing = Missing
    Locked = Locked
    NoFile = NoFile
    Damaged = Damaged
    NoWrite = NoWrite
    NoName = NoName
    NoKey = NoKey
    MaxSurvivors = 2
SYMMETRY Symmetry
INVARIANTS
    ViewTypeOK
    FileMatches
    LockedShowsNothing
PROPERTIES
    SecretsStay
    ImplementsRegister
