SPECIFICATION FairSpec
CONSTANTS
    Worker = {w1, w2}
    Deleter = {d1}
    e0 = e0
    e1 = e1
    e2 = e2
    t1 = t1
    t2 = t2
    Email = {e0, e1}
    Thread = {t1}
    Message <- MCOneThread
    IngestTask = {x1, x2}
    ApiTask = {}
    Field = {f1}
    Value = {v1, v2}
    Default <- MCDefault
    v1 = v1
    None = None
PROPERTIES
    RunsEnd
    DeletesEnd
