SPECIFICATION FairSpec
CONSTANTS
    c1 = c1
    c2 = c2
    Clients = {c1, c2}
    NoClient = NoClient
    NBlocks = 3
INVARIANTS StoredAll SentAll
PROPERTIES ImplementsByteStream Finishes
CHECK_DEADLOCK FALSE
