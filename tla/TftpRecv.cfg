SPECIFICATION FairSpec
CONSTANTS
    N = 4
    BlockMod = 3
    PacketLife = 2
    MaxAlarms = 2
INVARIANTS DiskInOrder AckedIsSaved FinalAckMeansClosed
PROPERTIES ImplementsFileTransfer Termination
CHECK_DEADLOCK FALSE
