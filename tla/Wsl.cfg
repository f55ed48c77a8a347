CONSTANTS
    Files = {"Chart", "values", "Dockerfile"}
    KindOf <- Folder
    Allow = {"crash"}
    MaxWork = 2
    MaxMounts = 3
SPECIFICATION Spec
INVARIANTS
    TypeOK
    OneWholeCopy
    SeesNewest
    PiecesAgree
