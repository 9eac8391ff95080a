SPECIFICATION Spec
CONSTANTS
    Sessions = {s1, s2}
    Readers = {r1}
    Words <- MCWords
    Domain <- MCDomain
    Base64Text <- MCBase64Text
    ToHeader <- MCToHeader
    Users <- MCUsers
    Chunks <- MCChunks
    Requests <- MCRequests
    MaxData = 8
INVARIANTS
    HeldMailWasSent
PROPERTIES
    ImplementsStore
CHECK_DEADLOCK FALSE
