SPECIFICATION FairSpec
CONSTANTS
    BufSize = 2
    Lengths = {0, 1, 2}
    MaxAnswers = 4
INVARIANTS
    AnswersArriveWhole
    FinishedWasToldAll
    BytesAreCounted
PROPERTIES
    AnswersAreSent
CHECK_DEADLOCK FALSE
