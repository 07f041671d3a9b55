SPECIFICATION Spec
CONSTANTS
    NoOne = NoOne
    Resumers = {r1}
    Stoppers = {s1, s2}
    Deleters = {}
    Handles = {h1, h2}
    NoHandle = NoHandle
    MaxExecs = 3
    MaxRestarts = 0
    CrashThreshold = 1
    Faults = {}
SYMMETRY Symmetry
INVARIANTS
    SingleWriter
