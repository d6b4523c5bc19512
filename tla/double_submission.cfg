SPECIFICATION Spec
CONSTANTS
    j1 = j1
    j2 = j2
    j3 = j3
    k1 = k1
    Job = {j1}
    NoJob = NoJob
    Key = {k1}
    NoKey = NoKey
    FlushCmd = FlushCmd
    Contract <- PlainJob
    TapeKind = "continuous"
    DiscreteAsStrip = FALSE
    MaxLabels = 5
    MaxLength = 100
    Separator = 1
    Sources = {"mqtt"}
    MaxAttempts = 1
    ExactClock = TRUE
    MaxCrashes = 0
    MaxCommands = 0
INVARIANTS
    TornNotRetried
