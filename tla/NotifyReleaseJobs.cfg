\* The jobs of a release and of its update, a channel with a sender and one
\* without, fewer faults than attempts, one edit.
CONSTANTS
    new = new  upd = upd  r1 = r1  r2 = r2  c1 = c1  c2 = c2
    Job = {new, upd}
    Release = {r1, r2}
    ReleaseOf <- MCReleaseOf
    Sub = {c1, c2}
    Sendable = {c1}
    Matching = {r1}
    Filters <- MCFilters
    MaxAttempts = 2
    MaxFaults = 1
    MaxChanges = 1
SPECIFICATION FairSpec
INVARIANTS CompletedHasTodo TodoBeforeSend OnceOrRetried RunsWithinAttempts
PROPERTIES JobsComplete
\* Once every job has ended nothing is left to do.
CHECK_DEADLOCK FALSE
