\* A run on a version and one by hand, an LLM that may fail, one fault, one
\* deleted report.
CONSTANTS
    a = a  b = b  v1 = v1  s1 = s1  s2 = s2
    Run = {a, b}
    Source = {s1}
    Version = {v1}
    Unknown = Unknown  NoVersion = NoVersion
    Target <- MCManual
    Report = {i1, i2, i3}
    NoReport = NoReport
    Channel = {c1}
    MaxWaitAttempts = 2
    MaxAttempts = 2
    SnoozeCounts = FALSE
    LLMFails = TRUE
    MaxFaults = 1
    MaxDeletes = 1
SPECIFICATION FairSpec
INVARIANTS AnnouncedAtMostOnce  LinksSound
 
\* Once every run has ended nothing is left to do.
CHECK_DEADLOCK FALSE
