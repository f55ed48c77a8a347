CONSTANTS
    Procs = {"dev", "again", "test", "stop"}
    Envs = {"dev", "test"}
    Aliases = {"app"}
    Contexts = {"minikube"}
    LocalContexts = {"minikube"}
    Job <- JobOfProc
    Disturb = {}
    MaxVersion = 1
    Nil = Nil
    Empty = Empty
    Torn = Torn
SPECIFICATION Spec
INVARIANTS
    AlwaysDeleted
    InstallsWhatItDecrypted
    SuccessDelivers
PROPERTIES
    PlaintextGoes
    ReleaseSpec
CHECK_DEADLOCK FALSE
