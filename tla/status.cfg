SPECIFICATION Spec
CONSTANTS
    MaxClock = 2
    MaxQueue = 2
INVARIANTS
    TypeOK
    PublishedIsSaved
    TopicSettles
    NeverGoesBack
    DownIsTold
