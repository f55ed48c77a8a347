CONSTANTS
    Repos <- Repositories
    Remotes = {"origin", "fork"}
    EndsWith <- Suffixes
    Branches <- Names
    Published <- PublishedOf
    Deps <- DepsOf
    Requests <- RequestsOf
    Developed <- WorkedOn
    MaxTip <- MaxTipOf
    Topic <- TopicOf
    Nil = Nil
SPECIFICATION Spec
INVARIANTS
    TypeOK
    InstallsWhatWasAsked
    DependenciesInPlace
PROPERTIES
    WorkKept
    Ends
