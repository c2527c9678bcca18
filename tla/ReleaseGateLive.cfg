\* Two versions, sweeps of one row, no rule or one nothing can evaluate; one fault.
CONSTANTS
    a = a  b = b  v1 = v1  v2 = v2  ra = ra  rb = rb  rb2 = rb2
    Source = {b}
    Version = {v1, v2}
    Release = {rb, rb2}
    NLJob = {n1}
    Sweep = {t1}
    NoVersion = NoVersion
    NoGate = NoGate
    SourceOf <- MCSourceOf
    Mapping <- MCTwoMappings
    Configs <- MCNone
    InitGates <- MCTwoVersions
    SweepLimit = 1
    HasEvaluator = FALSE
    MaxFaults = 1
    MaxChanges = 0
SPECIFICATION FairSpec
PROPERTIES PendingEventuallyOpens OpenedEventuallyTriggered
