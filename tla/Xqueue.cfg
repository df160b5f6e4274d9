SPECIFICATION FairSpec
CONSTANTS
    v1 = v1
    v2 = v2
    RingSize = 4
    Words = 2
    Values <- MCValues
    Commands <- MCCommands
    MaxSent = 5
CHECK_DEADLOCK FALSE
PROPERTIES QueueIsFifo AcceptedIsCaptured
