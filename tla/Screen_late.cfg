SPECIFICATION Spec
CONSTANTS
  Jobs = {j1, j2}
  Old = {j1}
  Settled = {"analyzed", "rendered"}
  MaxPolls = 1
  MaxPosts = 3
INVARIANT OwnRegionEver
CHECK_DEADLOCK FALSE
