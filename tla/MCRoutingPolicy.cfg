SPECIFICATION Spec
CONSTANTS
    Email <- MCEmail
    Text <- MCText
    None = None
INVARIANTS
    TypeOK
    OwnerHasCategory
    ValueWasStated
PROPERTIES
    NearDeadlineIsHigh
    TriageIsUncertain
    PriorKept
    AmountsMoveSalesOnly
    DecoysStayWithAarti
    ThanksKeepTheTask
