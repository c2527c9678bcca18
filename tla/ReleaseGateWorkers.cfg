\* Both sources required, with and without an NL rule; two sweeps may overlap;
\* one fault.
CONSTANTS
    a = a  b = b  v1 = v1  v2 = v2  ra = ra  rb = rb  rb2 = rb2
    Source = {a, b}
    Version = {v1}
    Release = {ra, rb}
    NLJob = {n1}
    Sweep = {t1, t2}
    NoVersion = NoVersion
    NoGate = NoGate
    SourceOf <- MCSourceOf
    Mapping <- MCOneMapping
    Configs <- MCNone
    InitGates <- MCPlainOrRule
    SweepLimit = 100
    HasEvaluator = TRUE
    MaxFaults = 1
    MaxChanges = 0
SPECIFICATION Spec
INVARIANTS TypeOK AtMostOneAgentRun NoForgottenGate StrandedOnlyByFaults AuditTruthful
PROPERTIES OpenIsFinal ContractSpec
