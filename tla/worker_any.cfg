SPECIFICATION Spec
CONSTANTS
    j1 = j1
    j2 = j2
    j3 = j3
    k1 = k1
    Job = {j1, j2}
    NoJob = NoJob
    Key = {k1}
    NoKey = NoKey
    FlushCmd = FlushCmd
    Contract <- AnyJobs
    TapeKind = "continuous"
    DiscreteAsStrip = FALSE
    MaxLabels = 1
    MaxLength = 100
    Separator = 1
    Sources = {"mqtt"}
    MaxAttempts = 1
    ExactClock = FALSE
    MaxCrashes = 1
    MaxCommands = 1
PROPERTIES
    KeepsRecord
INVARIANTS
    TypeOK
    QueuedOrAnswered
    ReportedIsCommitted
