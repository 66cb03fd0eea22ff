SPECIFICATION FairSpec
CONSTANTS
    MaxRequests = 3
INVARIANTS LeavesNoFiles IdleHoldsNothing
PROPERTIES SignalEndsTransfer
CHECK_DEADLOCK FALSE
