SPECIFICATION FairSpec
CONSTANTS
    Clients = {c1, c2, c3}
INVARIANTS
    TypeOK
    OpenHasHandler
    FinishedReadsNoMore
PROPERTIES
    ClosedIsForgotten
    LeftIsForgotten
    WaitingIsAccepted
CHECK_DEADLOCK FALSE
