CONSTANTS
    Jobs = {"devX", "intX"}
    Input <- InputOfJob
    MaxJobs = 2
    Foreign = {}
    Legacy = FALSE
    MaxName = 5
    Nil = Nil
    Good = {"c1"}
SPECIFICATION Spec
INVARIANT
    ImagesDoNotCross
CHECK_DEADLOCK FALSE
