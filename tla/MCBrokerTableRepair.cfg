SPECIFICATION Spec
CONSTANTS
    Parties = {1, 2}
    Tables = {t1}
    Schemas <- ThreeSchemas
    NoTable = NoTable
    Privs = {"PLAINTEXT"}
    NoPriv = NoPriv
    MaxCreates = 2
    MaxDrops = 1
    MaxGrants = 1
    MaxRevokes = 1
    MaxChecks = 1
    MaxFaults = 1
CONSTRAINT
    OneEvent
PROPERTIES
    RepairHeals
CHECK_DEADLOCK FALSE
