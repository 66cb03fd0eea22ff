SPECIFICATION FairSpec
CONSTANTS
    f1 = f1
    f2 = f2
    NoFile = NoFile
    Files = {f1, f2}
    N = 3
    Newlines = {2}
    Size = 3
INVARIANTS InOrder EndIsEnd
PROPERTIES CopyEnds
CHECK_DEADLOCK FALSE
