SPECIFICATION Spec
CONSTANTS
  Jobs = {j1, j2}
  Old = {j1}
  Settled = {"analyzed", "rendered"}
  MaxPolls = 1
  MaxPosts = 2
INVARIANTS OwnRegion NoStaleOffer
PROPERTIES CatchesUp ProgressEnds ButtonReturns
CHECK_DEADLOCK FALSE
