SPECIFICATION LinkFairSpec
CONSTANTS
    Reply <- Replies
    Leftover <- Leftovers
    MaxReplies = 3
    Answer <- Answers
    Complete0F <- Done
    Cancelled0B <- Refused
    Rows = 2
    FeedLines = TRUE
    MaxFrames = 2
INVARIANTS
    LinkTypeOK
    FramesAsSent
    Outpaced
    ConfirmedHasFinished
    NoRunaway
PROPERTY
    PrintReturns
CHECK_DEADLOCK FALSE
