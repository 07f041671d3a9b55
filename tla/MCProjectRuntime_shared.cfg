SPECIFICATION Spec
CONSTANTS
    Sessions = {s1, s2}
    MaxFaults = 2
INVARIANTS
    TypeOK
    LastOneOut
PROPERTIES
    ProvisioningSpares
    StartsSettle
CHECK_DEADLOCK FALSE
