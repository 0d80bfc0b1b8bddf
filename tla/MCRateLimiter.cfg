SPECIFICATION FairSpec
CONSTANTS
    Caller = {c1, c2, c3}
    Interval = 2
    Rpm = 3
    MaxCalls = 2
    None = None
INVARIANTS
    TypeOK
    AdmittedPerMinute
PROPERTIES
    EachIsAdmitted
