SPECIFICATION Spec
CONSTANTS
    db1 = db1  db2 = db2
    p1 = p1  p2 = p2
    x = x  y = y
    NONE = NONE
    UNSET = UNSET
    Databases <- MCDatabases
    Seeders <- MCSeeders
    SKUs <- MCSKUs
    Environments <- MCEnvironments
    DotEnvs <- MCDotEnvs
    Files <- MCFiles
INVARIANTS
    TypeOK
    ReportIsTrue
    EnvironmentWins
PROPERTIES
    WithdrawnStaysOff
