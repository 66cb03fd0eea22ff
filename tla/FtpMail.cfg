SPECIFICATION FairSpec
CONSTANTS
    c1 = c1
    c2 = c2
    Clients = {c1, c2}
    NoClient = NoClient
    Pieces = {"known", "mail"}
    MaxLines = 2
INVARIANTS LockHeld
PROPERTIES LockReleased HandshakeEnds SockfiltEnds
CHECK_DEADLOCK FALSE
