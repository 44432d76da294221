\* The bound of interactions ends every behaviour.
SPECIFICATION Spec
CONSTANTS
    Names = {"n1", "n2"}
    Confs = {"ok", "bad"}
    MaxNodes = 2
    MaxEvents = 4
CHECK_DEADLOCK FALSE
PROPERTY PublishedDraftPassed
