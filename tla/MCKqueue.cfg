SPECIFICATION Spec
CONSTANTS
    MaxOwners = 3
    MaxOut = 2
    MaxWrites = 2
INVARIANTS TypeOK InterestApplied KernelFollowsBuffer
PROPERTIES DataRead
