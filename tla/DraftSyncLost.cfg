SPECIFICATION SpecSync
CONSTANTS
    Buttons = {"save", "validate", "publish"}
    MaxEdits = 2
    MaxLost = 0
INVARIANTS
    NothingUnsavedMeansStored
