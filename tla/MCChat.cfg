SPECIFICATION Spec
CONSTANTS
    t1 = t1
    t2 = t2
    b1 = b1
    r1 = r1
    r2 = r2
    Thread = {t1, t2}
    Batch = {b1}
    Run = {r1, r2}
    BatchOf <- MCBatchOf
    Message <- MCMessage
    AboutGst <- MCAboutGst
    Task = {x1, x2}
    Content <- MCContent
    Scope <- MCScope
    Question <- MCQuestion
    MaxChanges <- MCMaxChanges
    ModelPlan <- MCModelPlan
    Reason = {"none", "vendor_spam"}
    None = None
SYMMETRY MCSymmetry
INVARIANTS
    OwnersKept
    CurrentTasksWereCurrent
    SameQuestionSameData
    StatsAgreeWithChat
