SPECIFICATION Spec
CONSTANTS
    MaxFrames = 5
    MaxMotion = 4
    L = 4
    Half = 1
    BandRows = 2
    MinContributors = 2
    BlankRows = {1, 4, 5, 8}
    MinInk = 1
    ContentH = 6
    SheetH = 8
    BandGap = 1
INVARIANT FewFramesTold
