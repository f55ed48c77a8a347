CONSTANTS
    Procs = {"local", "again", "dev", "devagain", "web", "plain", "login", "relogin", "token"}
    Job <- JobOfProc
    Users = {ann, bob}
    Concurrent = FALSE
    MaxCommands = 3
    Nil = Nil
    Empty = Empty
    App = "app"
    Containers = {"base", "web"}
    External = {"base"}
    From <- FromOf
    UseAlias = {"web"}
    Skips <- SkipsOf
    Setting <- SettingOf
    BuildOrder <- OrderOf
    Envs = {"local", "dev"}
    Versions <- VersionsOf
    Machines = {"minikube", "desktop"}
SYMMETRY Anybody
SPECIFICATION Spec
INVARIANTS
    TypeOK
    StaleHasCause
    OneUser
PROPERTIES
    Delivers
    LoginRepairs
CHECK_DEADLOCK FALSE
