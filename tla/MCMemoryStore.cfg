SPECIFICATION Spec
CONSTANTS
    Worker = {w1, w2}
    e0 = e0
    e1 = e1
    t1 = t1
    t2 = t2
    Email = {e0, e1}
    Thread = {t1, t2}
    Message <- MCMessage
    IngestTask = {x1, x2, x3, x4}
    ApiTask = {y1}
    Lock = {k1, k2, k3}
    None = None
SYMMETRY MCSymmetry
INVARIANTS
    OneTaskWhileOneLock
    RowAgreesWhileOneLock
PROPERTIES
    DecisionKeptWithinThread
