SPECIFICATION Spec
CONSTANTS
    Worker = {w1, w2}
    Deleter = {}
    e0 = e0
    e1 = e1
    e2 = e2
    t1 = t1
    t2 = t2
    Email = {e0, e1, e2}
    Thread = {t1}
    Message <- MCReplies
    IngestTask = {x1}
    ApiTask = {}
    Field = {f1, f2}
    Value = {v1, v2}
    Default <- MCDefault
    v1 = v1
    None = None
PROPERTY
    PriorPreserved
