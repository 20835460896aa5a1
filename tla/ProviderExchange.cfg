SPECIFICATION FairSpec
CONSTANTS
    Jobs <- MCJobs
    Answers <- MCAnswers
    AttemptCount = 2
    TurnTimeout = 5
    TotalTimeout = 4
    ConnectTimeout = 2
    ReadTimeout = 2
    Backoff = 1
    RetryAfterLimit = 3
    Horizon = 5
INVARIANTS
    CredentialConfined
    OnlyTransientRetried
    ResultIsTruth
    InTime
PROPERTIES
    TurnReturns
