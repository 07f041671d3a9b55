SPECIFICATION FairSpecFromOneSlot
CONSTANTS
    NoOne = NoOne
    Resumers = {r1, r2}
    Stoppers = {s1}
    Deleters = {}
    Handles = {h1, h2}
    NoHandle = NoHandle
    MaxExecs = 2
    MaxRestarts = 1
    CrashThreshold = 1
    Faults = {"streamLost", "hibernateFails"}
ACTION_CONSTRAINT TakesFirst
INVARIANTS
    TypeOK
    SingleAgent
    SingleWriter
    NoZombie
PROPERTIES
    ResumeAnswered
    DeathNoticed
