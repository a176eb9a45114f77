SPECIFICATION FairSpec
CONSTANTS
    Stream <- MCStream
    Limits <- MCLimits
    ErrCapacity = 1
INVARIANT InOrder
PROPERTIES
    DecorateReturns
    OneLeftBehind
CHECK_DEADLOCK FALSE
