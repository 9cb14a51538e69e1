SPECIFICATION Spec
CONSTANTS
    MaxDegree = 2
    MaxPool = 3
INVARIANTS
    ShapesProve
PROPERTIES
    ShapesTerminate
