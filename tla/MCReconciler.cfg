SPECIFICATION Spec
CONSTANTS
    Worker = {w1, w2}
    Deleter = {d1, d2}
    e0 = e0
    e1 = e1
    e2 = e2
    t1 = t1
    t2 = t2
    Email = {e0, e1}
    Thread = {t1, t2}
    Message <- MCMessage
    IngestTask = {x1, x2}
    ApiTask = {y1}
    Field = {f1}
    Value = {v1}
    Default <- MCDefault
    v1 = v1
    None = None
SYMMETRY MCSymmetry
INVARIANTS
    TypeOK
    OneIngestedTask
    IngestedTaskMapped
    LedgerAgrees
    CreditedOnce
    TaskHasItsCreateEvent
    ReplayNeverClashes
PROPERTIES
    LedgerSpec
    ThreadIsolation
