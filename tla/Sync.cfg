CONSTANTS
    NULL = NULL
    s1 = s1
    s2 = s2
    d1 = d1
    d2 = d2
    d3 = d3
    Targets <- MCTargets
    DatabasesOf <- MCDatabases
    Schemas <- MCSchemas
    Enforced = {d1}
    Initial <- MCInitial
    Commands <- MCCommands
    Others <- MCOthers
    MaxRuns = 2
    MaxOthers = 1
    MaxFaults = 1
SPECIFICATION Spec
INVARIANTS TypeOK RowsStored ReportComplete
PROPERTY RerunChangesNothing
