SPECIFICATION StartupFairSpec
INVARIANT StartupTypes
CHECK_DEADLOCK FALSE
