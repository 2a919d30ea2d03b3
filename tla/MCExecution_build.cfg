SPECIFICATION ExecutionSpec
SYMMETRY Interchangeable
CONSTANTS
    j1 = j1  j2 = j2
    Jobs = {j1, j2}
    Mandatory = {j1}
    AttemptIds = {a1, a2}
    Versions = {v1}
    Sessions = {s1, s2}
    MaxFence = 0
    MaxAttempts <- MCMaxAttempts
    RetryClasses <- MCRetryClasses
    MaxTime = 1
    ExpectedHead <- MCExpectedHead
    MaxHead = 1
    NoVersion = NoVersion
    NoJob = NoJob
    NoTime = NoTime
INVARIANTS CancelExcludesSuccess BuildVerdict
PROPERTIES EvidenceImmutable
CHECK_DEADLOCK FALSE
