\* Two edits of the gate or the sources at any moment.
CONSTANTS
    a = a  b = b  v1 = v1  v2 = v2  ra = ra  rb = rb  rb2 = rb2
    Source = {a, b}
    Version = {v1, v2}
    Release = {ra, rb, rb2}
    NLJob = {n1}
    Sweep = {}
    NoVersion = NoVersion
    NoGate = NoGate
    SourceOf <- MCSourceOf
    Mapping <- MCTwoMappings
    Configs <- MCEdits
    InitGates <- MCEditStart
    SweepLimit = 100
    HasEvaluator = TRUE
    MaxFaults = 0
    MaxChanges = 2
SPECIFICATION Spec
INVARIANTS ReadyJustified
\* Without sweeps there is nothing left to do once every job has ended.
CHECK_DEADLOCK FALSE
