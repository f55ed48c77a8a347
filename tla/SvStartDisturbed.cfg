CONSTANTS
    Procs = {"dev", "job"}
    Envs = {"dev"}
    Aliases = {"app", "pull"}
    Contexts = {"minikube", "gke"}
    LocalContexts = {"minikube"}
    Job <- JobOfProc
    Disturb = {"overlap", "kill", "edit"}
    MaxVersion = 1
    Nil = Nil
    Empty = Empty
    Torn = Torn
SPECIFICATION Spec
INVARIANTS
    TypeOK
    DecryptedFileHasOwner
PROPERTY
    NonLocalNeedsConsent
CHECK_DEADLOCK FALSE
