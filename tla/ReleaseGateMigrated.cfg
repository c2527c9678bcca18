\* The gate RunMigrations creates for a wait_for_all_sources project.
CONSTANTS
    a = a  b = b  v1 = v1  v2 = v2  ra = ra  rb = rb  rb2 = rb2
    Source = {a, b}
    Version = {v1}
    Release = {ra, rb}
    NLJob = {}
    Sweep = {t1}
    NoVersion = NoVersion
    NoGate = NoGate
    SourceOf <- MCSourceOf
    Mapping <- MCOneMapping
    Configs <- MCNone
    InitGates <- MCMigrated
    SweepLimit = 100
    HasEvaluator = TRUE
    MaxFaults = 0
    MaxChanges = 0
SPECIFICATION FairSpec
PROPERTIES ReportIsTracked
