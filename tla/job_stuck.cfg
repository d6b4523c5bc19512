SPECIFICATION ReliableSpec
CONSTANTS
    j1 = j1
    j2 = j2
    j3 = j3
    k1 = k1
    Job = {j1, j2}
    NoJob = NoJob
    Key = {k1}
    NoKey = NoKey
    FlushCmd = FlushCmd
    Contract <- SpanJobs
    TapeKind = "continuous"
    DiscreteAsStrip = FALSE
    MaxLabels = 2
    MaxLength = 100
    Separator = 1
    Sources = {"dir"}
    MaxAttempts = 1
    ExactClock = TRUE
    MaxCrashes = 0
    MaxCommands = 0
PROPERTIES
    EveryJobAnswered
