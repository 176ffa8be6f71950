SPECIFICATION FairSpec
CONSTANTS
    NoView = NoView
    HistoryLimit = 1
    QueueLimit = 1
    Commits = {1, 2}
    MaxStreams = 2
    MaxSequence = 2
    MaxPending = 1
    EagerReads = FALSE
PROPERTY DisplayThaws
CHECK_DEADLOCK FALSE
