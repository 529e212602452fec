CONSTANTS
    Clients = {c1, c2}
    Rate = 3
    Window = 2
    NoBucket = NoBucket
    MaxTime = 4
SPECIFICATION Spec
SYMMETRY ClientSymmetry
INVARIANT IInv
INVARIANT BurstBound
PROPERTY RefusedOnlyWhenSpent
PROPERTY ImplementsFixedWindow
