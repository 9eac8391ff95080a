SPECIFICATION SenderSpec
CONSTANTS
    Sessions = {s1, s2}
    Readers = {}
    Requests = {}
    Chunks = {}
    Words <- mc_Words
    Domain <- mc_Domain
    Base64Text <- mc_Base64Text
    ToHeader <- mc_ToHeader
    Users <- mc_Users
    Scripts <- mc_Scripts
    MaxData = 11
INVARIANTS
    StoredAtMostOnce
PROPERTIES
    NobodyWaits
CHECK_DEADLOCK FALSE
