SPECIFICATION FairSpec
CONSTANTS
    u1 = u1
    u2 = u2
    Urls = {u1, u2}
    Apps = {"hiperfifo", "ephiperfifo", "evhiperfifo", "ghiper", "multi-uv", "multi-event"}
    Chunks = 2
    MaxErrors = 1
INVARIANTS NoLostWakeup WatchesAsAsked ContextsAlive EndsWhenDone
PROPERTIES AllFetched
CHECK_DEADLOCK FALSE
