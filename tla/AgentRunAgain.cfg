\* Two runs on one version; nothing fails.
CONSTANTS
    a = a  b = b  v1 = v1  s1 = s1  s2 = s2
    Run = {a, b}
    Source = {s1}
    Version = {v1}
    Unknown = Unknown  NoVersion = NoVersion
    Target <- MCSame
    Report = {i1, i2, i3}
    NoReport = NoReport
    Channel = {c1}
    MaxWaitAttempts = 2
    MaxAttempts = 2
    SnoozeCounts = FALSE
    LLMFails = FALSE
    MaxFaults = 0
    MaxDeletes = 0
SPECIFICATION FairSpec
PROPERTIES CanReanalyze
\* Once every run has ended nothing is left to do.
CHECK_DEADLOCK FALSE
