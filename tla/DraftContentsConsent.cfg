SPECIFICATION SpecPage
CONSTANTS
    MaxNodes = 3
    MaxEvents = 1
CHECK_DEADLOCK FALSE
PROPERTY OverwriteNeedsConsent
