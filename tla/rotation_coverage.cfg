SPECIFICATION Spec
CONSTANTS
    Batch = 2
    MaxRow = 5
INVARIANT
    NoCandidateStarves
