SPECIFICATION StartupFairSpec
INVARIANTS ReadyIsReachable
PROPERTIES NoOrphan StartupEnds
CHECK_DEADLOCK FALSE
