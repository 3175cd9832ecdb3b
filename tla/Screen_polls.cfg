SPECIFICATION Spec
CONSTANTS
  Jobs = {j1, j2}
  Old = {j1}
  Settled = {"analyzed", "rendered"}
  MaxPolls = 2
  MaxPosts = 2
INVARIANTS TypeOK OwnRegion NoStaleOffer
CHECK_DEADLOCK FALSE
