\* The orchestrator and one request; a source may be created, edited or deleted;
\* one failure.
SPECIFICATION FairSpec
CONSTANTS
    s1 = s1
    s2 = s2
    v1 = v1
    v2 = v2
    t1 = t1
    t2 = t2
    q1 = q1
    q2 = q2
    Empty = Empty
    Absent = Absent
    Orch = Orch
    NoSource = NoSource
    NoVersion = NoVersion
    Source = {s1}
    Version = {v1, v2}
    Text = {t1}
    Request = {q1}
    InitSource = {}
    MaxEdits = 3
    MaxAdmin = 2
    MaxFaults = 1
INVARIANTS OutboxExact DeletedLeavesNothing
PROPERTIES Converges
\* Before the first source is created, and once it is deleted, nothing need happen.
CHECK_DEADLOCK FALSE
