CONSTANTS
    Feeds = {f1}
    Attempts = 2
    Timeout = 2
    RetryDelay = 1
    Limit = 1
SPECIFICATION Spec
CHECK_DEADLOCK FALSE
INVARIANT JobsWithinLimit
