SPECIFICATION Spec
CONSTANTS
    s1 = s1
    s2 = s2
    v1 = v1
    v2 = v2
    t1 = t1
    t2 = t2
    q1 = q1
    q2 = q2
    Empty = Empty
    Absent = Absent
    Orch = Orch
    NoSource = NoSource
    NoVersion = NoVersion
    Source = {s1}
    Version = {v1, v2}
    Text = {t1, t2}
    Request = {}
    InitSource = {s1}
    MaxEdits = 4
    MaxAdmin = 0
    MaxFaults = 2
PROPERTIES ChangeReprocessed UpdateMeansChange
