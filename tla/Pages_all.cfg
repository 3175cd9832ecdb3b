SPECIFICATION PagesSpec
CONSTANTS
    MaxFrames = 9
    MaxFootage = 2
    MaxHidden = 2
    Score = 2
    Columns = {0, 2}
    Wrap = 1
    MinContributors = 2
    BandH = 3
    ContentH = 6
    SheetH = 7
    BandGap = 1
INVARIANTS EveryPageOnce LastPageWhole
