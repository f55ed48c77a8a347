CONSTANTS
    Procs = {"preview"}
    Job <- JobOfProc
    Users = {ann}
    Concurrent = FALSE
    MaxCommands = 1
    Nil = Nil
    Empty = Empty
    App = "app"
    Containers = {"base", "web"}
    External = {"base"}
    From <- FromOf
    UseAlias = {"web"}
    Skips = {}
    Setting <- SettingOf
    BuildOrder <- OrderOf
    Envs = {"local", "dev"}
    Versions <- VersionsOf
    Machines = {"minikube"}
SPECIFICATION Spec
PROPERTY
    PushedIsBuilt
CHECK_DEADLOCK FALSE
