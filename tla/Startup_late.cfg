SPECIFICATION StartupFairSpec
PROPERTY LateHandshakeArrives
CHECK_DEADLOCK FALSE
