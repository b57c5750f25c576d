SPECIFICATION FairSpec
CONSTANTS
    OutCap = 2
    Fetch = 4
    MaxBlock = 2
    MaxOut = 3
    Return <- MCReturn
INVARIANTS StreamIsInOrder
PROPERTIES StreamEndsWell InputIsDelivered
