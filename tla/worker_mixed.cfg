SPECIFICATION Spec
CONSTANTS
    j1 = j1
    j2 = j2
    j3 = j3
    k1 = k1
    Job = {j1, j2}
    NoJob = NoJob
    Key = {k1}
    NoKey = NoKey
    FlushCmd = FlushCmd
    Contract <- MixedJobs
    TapeKind = "continuous"
    DiscreteAsStrip = FALSE
    MaxLabels = 5
    MaxLength = 100
    Separator = 1
    Sources = {"dir"}
    MaxAttempts = 2
    ExactClock = TRUE
    MaxCrashes = 1
    MaxCommands = 0
INVARIANTS
    CommittedIsPrinted
    CommittedNotReprinted
    CrashReprintsOne
    TornNotRetried
    TornIsReported
PROPERTIES
    AnswersOnce
