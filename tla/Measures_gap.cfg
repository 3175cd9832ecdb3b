SPECIFICATION Spec
CONSTANTS
    MaxSystems = 6
    Steps = {1, 4, 7}
    Losses = {0, 4, 7, 8, 14, 21, 100}
    Misreads = {0, 2, 13, 20, 400}
    Unit = 60
INVARIANT GapsFlagged
