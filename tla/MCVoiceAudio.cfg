CONSTANTS
    Devices = {builtin, headset}
    Fixed = builtin
    Doubtful <- MCDoubtful
    Threshold = 1
    None = None
    LookAhead = 2
    HoldFrames = 2
    ReleaseFrames = 1
SPECIFICATION Spec
INVARIANTS CardInPlace SettingsKept WordsWhole
