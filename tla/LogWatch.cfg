CONSTANTS
    Keys = {a, b}
    MaxKids = 2
SPECIFICATION Spec
INVARIANTS
    TypeOK
    WatchedIsExact
PROPERTIES
    FollowSpec
    IterationsFollowed
    GoneContainersReaped
