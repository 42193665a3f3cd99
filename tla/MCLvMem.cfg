SPECIFICATION Spec
CONSTANTS
    Words = 6
    Tasks <- MCTasks
    Sizes <- MCSizes
    FullDefragCnt = 2
INVARIANTS Tiled BlocksIntact
PROPERTY CallsReturn
