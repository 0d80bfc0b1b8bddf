SPECIFICATION Spec
CONSTANTS
    Email = {1, 2}
    MaxRetries = 1
    None = None
INVARIANT
    ValidItemsPreserved
