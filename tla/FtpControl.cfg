SPECIFICATION FairSpec
CONSTANTS
    c1 = c1
    c2 = c2
    Clients = {c1, c2}
    NoClient = NoClient
    Pieces = {"part", "known", "unknown"}
    MaxLines = 2
INVARIANTS TypeOK OwnReplies Understood
PROPERTIES Answered
CHECK_DEADLOCK FALSE
