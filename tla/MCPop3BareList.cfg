SPECIFICATION Spec
CONSTANTS
    Readers = {r1}
    Words <- MCWords
    Domain <- MCDomain
    Base64Text <- MCNone
    ToHeader <- MCNone
    Users <- MCUsers
    Requests <- MCRequests
    NewMails <- MCNewMails
    MaxMails = 2
INVARIANT
    BareListIsTaken
CHECK_DEADLOCK FALSE
