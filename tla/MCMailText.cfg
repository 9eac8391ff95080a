SPECIFICATION MCSpec
CONSTANTS
    Words <- mc_Words
    Domain <- mc_Domain
    Base64Text <- mc_Base64Text
    ToHeader <- mc_ToHeader
    Pieces <- mc_Pieces
    MaxSize = 13
    SizeRange = 256
    Samples <- mc_Samples
    MaxLength = 6
    Stale <- mc_Stale
INVARIANTS
    ReceiverIsInBrackets
    RetrievedIsSent
    RoundTrip
    EncodesBits
CHECK_DEADLOCK FALSE
