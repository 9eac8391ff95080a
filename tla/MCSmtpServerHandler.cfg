SPECIFICATION Spec
CONSTANTS
    Sessions = {s1}
    Words <- MCWords
    Domain <- MCDomain
    Base64Text <- MCBase64Text
    ToHeader <- MCToHeader
    Users <- MCUsers
    Chunks <- MCChunks
    MaxData = 9
INVARIANTS
    TypeOK
    DialogueInOrder
    LoginAnswered
    FinishedAtEndOfData
    OneRowPerFinishedSession
    EndsOnlyAfterRefusal
CHECK_DEADLOCK FALSE
