CONSTANTS
    Jobs = {"pr4", "pr42", "pr7", "pr7again", "devX", "qaX", "intX"}
    Input <- InputOfJob
    MaxJobs = 4
    Foreign <- Neighbours
    Legacy = TRUE
    MaxName = 5
    Nil = Nil
    Good = {"c1"}
SPECIFICATION Spec
INVARIANTS
    TypeOK
    VerdictIsOwn
    PullReleaseHasOwner
    ImagesDoNotCross
CHECK_DEADLOCK FALSE
