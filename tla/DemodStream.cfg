SPECIFICATION FairSpec
CONSTANTS
    JANUS_RED_SIZE = 4
    NotifyAt = 2
    Block = {0, 1, 3, 9}
    Errno = {1, 6}
    MaxWritten = 14
    MaxFailures = 2
INVARIANT TypeOK
INVARIANT KeepsUp
INVARIANT EarlyExecutions
INVARIANT OneLateExecution
PROPERTY SleeperJoined
CHECK_DEADLOCK FALSE
