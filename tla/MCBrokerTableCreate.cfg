SPECIFICATION FairSpec
CONSTANTS
    Parties = {1, 2, 3}
    Tables = {t1, t2}
    Schemas <- ConflictingSchemas
    NoTable = NoTable
    Privs = {"PLAINTEXT"}
    NoPriv = NoPriv
    MaxCreates = 2
    MaxDrops = 1
    MaxGrants = 0
    MaxRevokes = 0
    MaxChecks = 0
    MaxFaults = 1
INVARIANTS
    TypeOK
    OneOwner
    NoPhantom
PROPERTIES
    IsDirectory
    CreatesEnd
CHECK_DEADLOCK FALSE
