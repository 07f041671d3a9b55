SPECIFICATION Spec
CONSTANTS
    u1 = u1
    CustomBuilds = {c1, c2}
    AgentBuilds = {a1, a2}
    Users = {u1}
    Owner <- OneOwner
    None = None
    MaxGlobal = 2
    MaxPerUser = 1
    MaxRestarts = 1
INVARIANTS
    TypeOK
    SlotsAccounted
    BuildLimits
PROPERTIES
    BuiltOnce
    SeenIsBuilt
CHECK_DEADLOCK FALSE
