SPECIFICATION FairSpec
CONSTANTS
    Calls = {c1, c2, c3}
    Projects = {p1, p2}
    MaxNested = 2
    None = None
INVARIANTS
    Serialized
    TailIsLast
PROPERTIES
    ServesInOrder
    CallsReturn
