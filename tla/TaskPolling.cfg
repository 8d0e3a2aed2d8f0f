CONSTANTS
    Ids = {t1}
    TTL = 3
    MaxTime = 11
    Interval = 1
    Latency = 1
    CreateUntil = 1
SPECIFICATION FairPollSpec
INVARIANTS
    NeverForgotten
    CancelIsObeyed
    TimeoutIsHonest
PROPERTY PollTerminates
