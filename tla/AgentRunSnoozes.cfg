\* One run, two sources; River takes a snoozed attempt back.
CONSTANTS
    a = a  b = b  v1 = v1  s1 = s1  s2 = s2
    Run = {a}
    Source = {s1, s2}
    Version = {v1}
    Unknown = Unknown  NoVersion = NoVersion
    Target <- MCSame
    Report = {i1}
    NoReport = NoReport
    Channel = {c1}
    MaxWaitAttempts = 2
    MaxAttempts = 3
    SnoozeCounts = FALSE
    LLMFails = TRUE
    MaxFaults = 0
    MaxDeletes = 0
SPECIFICATION FairSpec
PROPERTIES WaitingEnds
\* Once every run has ended nothing is left to do.
CHECK_DEADLOCK FALSE
