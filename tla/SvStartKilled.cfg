CONSTANTS
    Procs = {"dev", "test"}
    Envs = {"dev", "test"}
    Aliases = {"app"}
    Contexts = {"minikube"}
    LocalContexts = {"minikube"}
    Job <- JobOfProc
    Disturb = {"kill"}
    MaxVersion = 1
    Nil = Nil
    Empty = Empty
    Torn = Torn
SPECIFICATION Spec
INVARIANT
    OwnEnvSecrets
CHECK_DEADLOCK FALSE
