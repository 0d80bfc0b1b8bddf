SPECIFICATION Spec
CONSTANTS
    e1 = e1
    e2 = e2
    e3 = e3
    Email = {e1, e2, e3}
    Text <- MCText
    Samples <- MCSamples
    Batch = {b1, b2}
    ChunkSize = 2
    Questions = 2
    None = None
SYMMETRY MCSymmetry
INVARIANTS
    UnlockedMeansConfirmed
    PreviewIsTheBatch
    OneStaleAnswerAtMost
