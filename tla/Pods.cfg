CONSTANTS
    Names = {"web-a", "redis-0"}
    Sticky = {"redis-0"}
    Procs = {s1, s2}
    Lines <- CommandLines
    MaxUid = 2
    Nil = Nil
SPECIFICATION Spec
INVARIANTS
    TypeOK
    CleanedUp
PROPERTIES
    DeletesFailed
    Finishes
CHECK_DEADLOCK FALSE
