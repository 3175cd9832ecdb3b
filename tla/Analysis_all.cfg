SPECIFICATION AnalysisSpec
CONSTANTS
    Scenes = {A, B}
    MaxFrames = 10
    Gap = 1
    MinLen = 4
    Side = 5
    MaxGap = 1
    MinSide = 2
    Tolerance = 0
    Static = 1
    Event <- MCEvent
    MinEvents = 3
    Coherence = 75
    Samples = 4
    Sheets <- MCSheets
    Columns <- MCColumns
    Vectors <- MCVectors
    MaxPairs = 9
INVARIANTS SongsFound CutawayIgnored RegionIsSheet RegionKeepsSize ModeFound
PROPERTY AnalysisEnds
