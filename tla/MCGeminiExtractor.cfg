SPECIFICATION Spec
CONSTANTS
    Email = {1, 2, 3}
    MaxRetries = 2
    None = None
INVARIANTS
    CallsBounded
    DegradedAfterRetries
