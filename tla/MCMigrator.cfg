SPECIFICATION MigratorSpec
CONSTANTS
    Procs = {p1, p2}
    Sums <- MCSums
    Statements <- MCStatements
    Creates <- MCCreates
    Script <- MCScript
    Editions <- MCEditions
    MaxVersion = 3
    MaxRestarts = 3
    None = None
    Nobody = Nobody
INVARIANT MigratorTypeOK
INVARIANT ReadyMeansMigrated
PROPERTY WholeMigrations
SYMMETRY Symmetry
CHECK_DEADLOCK FALSE
