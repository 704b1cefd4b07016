SPECIFICATION Spec
CONSTANTS
    MaxOwners = 2
    MaxOut = 2
    MaxWrites = 2
INVARIANT ErrorsAreOwn
