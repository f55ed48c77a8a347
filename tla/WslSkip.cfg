CONSTANTS
    Files = {"Chart", "values"}
    KindOf <- Folder
    Allow = {"skip"}
    MaxWork = 1
    MaxMounts = 2
SPECIFICATION Spec
INVARIANT
    NothingLost
CHECK_DEADLOCK FALSE
