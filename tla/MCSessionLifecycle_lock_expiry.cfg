SPECIFICATION Spec
CONSTANTS
    NoOne = NoOne
    Resumers = {r1, r2}
    Stoppers = {}
    Deleters = {}
    Handles = {h1, h2}
    NoHandle = NoHandle
    MaxExecs = 3
    MaxRestarts = 0
    CrashThreshold = 1
    Faults = {"lockExpiry"}
SYMMETRY Symmetry
INVARIANTS
    SingleAgent
