SPECIFICATION Spec
CONSTANTS
    u1 = u1
    u2 = u2
    Urls = {u1, u2}
    Apps = {"multi-uv"}
    Chunks = 2
    MaxErrors = 0
INVARIANTS TimeoutsReachLibcurl
CHECK_DEADLOCK FALSE
