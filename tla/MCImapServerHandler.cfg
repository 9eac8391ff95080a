SPECIFICATION Spec
CONSTANTS
    Chunks <- MCChunks
    MaxText = 12
    MaxReplies = 6
INVARIANTS
    TypeOK
    DialogueInOrder
    
CHECK_DEADLOCK FALSE
