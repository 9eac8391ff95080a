SPECIFICATION FairSpec
CONSTANTS
    Clients = {c1, c2, c3}
    MaxRequests = 2
    BuffSize = 2
    Finishes = TRUE
INVARIANTS
    ToldOwnAnswers
    OnlyServedIsOpen
PROPERTIES
    WaitingIsServed
CHECK_DEADLOCK FALSE
