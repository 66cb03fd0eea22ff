SPECIFICATION FairSpec
CONSTANTS
    N = 2
    BlockMod = 65536
    PacketLife = 1
    MaxAlarms = 5
PROPERTIES FinalAckResent
CHECK_DEADLOCK FALSE
