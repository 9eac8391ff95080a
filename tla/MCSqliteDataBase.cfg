SPECIFICATION Spec
CONSTANTS
    Procs = {a1, a2, pop3}
    Adders = {a1, a2}
    TestUsers <- MCTestUsers
    MaxRows = 3
SYMMETRY Symmetry
INVARIANTS
    TypeOK
    TablesTogether
    CacheIsPrefix
    ServersKnowUsers
    UsersAddedOnce
PROPERTIES
    EmptyFileStaysEmpty
