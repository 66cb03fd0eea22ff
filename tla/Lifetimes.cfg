SPECIFICATION Spec
INVARIANTS TypecheckExact ArgumentsAsDeclared UsesAlive RemovedFirst Released
CHECK_DEADLOCK FALSE
