SPECIFICATION FairSpec
CONSTANTS
    N = 5
    BlockMod = 3
    PacketLife = 2
    MaxAlarms = 2
INVARIANTS BufferHoldsBlock InOrder StepByStep
PROPERTIES ImplementsFileTransfer Termination
CHECK_DEADLOCK FALSE
