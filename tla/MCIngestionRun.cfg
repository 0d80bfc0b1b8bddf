SPECIFICATION FairSpec
CONSTANTS
    Run = {r1, r2}
    e1 = e1
    e2 = e2
    e3 = e3
    Email = {e1, e2, e3}
    Thread = {1, 2, 3}
    Message <- MCMessage
    Request <- MCRequest
    BatchSize = 2
    None = None
INVARIANTS
    CompletedMeansDecided
    CountersAddUp
    RepliesSeePredecessors
    DeliveredInOrder
PROPERTIES
    RunSettles
