SPECIFICATION Spec
CONSTANTS
    NoOne = NoOne
    Resumers = {r1}
    Stoppers = {}
    Deleters = {d1}
    Handles = {h1, h2}
    NoHandle = NoHandle
    MaxExecs = 2
    MaxRestarts = 0
    CrashThreshold = 1
    Faults = {}
SYMMETRY Symmetry
PROPERTIES
    RevocationSticks
