SPECIFICATION Spec
CONSTANTS
    NoView = NoView
    HistoryLimit = 1
    QueueLimit = 1
    Commits = {1, 2}
    MaxStreams = 2
    MaxSequence = 3
    MaxPending = 1
    EagerReads = TRUE
INVARIANTS TypeOK ViewIsAuthoritative LiveViewMissesNothing
PROPERTY ViewNeverGoesBack
CHECK_DEADLOCK FALSE
