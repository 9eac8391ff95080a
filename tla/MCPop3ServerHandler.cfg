SPECIFICATION Spec
CONSTANTS
    Readers = {r1, r2}
    Words <- MCWords
    Domain <- MCDomain
    Base64Text <- MCNone
    ToHeader <- MCNone
    Users <- MCUsers
    Requests <- MCRequests
    NewMails <- MCNewMails
    MaxMails = 3
INVARIANTS
    TypeOK
    ArrayIsListing
    NumberingIsKnown
    ShownMailIsAddressed
CHECK_DEADLOCK FALSE
SYMMETRY Symmetry
