SPECIFICATION Spec
CONSTANTS
    Scenes = {A, B}
    MaxFrames = 10
    Gap = 1
    MinLen = 4
INVARIANT CameraCutsFiltered
