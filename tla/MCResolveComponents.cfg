SPECIFICATION Spec
CONSTANTS
    Requests <- MCRequests
    Files = {"yesterday", "today"}
    Export <- MCExport
    Workers = {1, 2}
    MaxReloads = 2
    MaxFailures = 1
INVARIANTS
    TypeOK
    OneWriter
    EveryComponentAnswered
    OnlyInHandAreMixed
    SameAsSequential
PROPERTIES
    ImplementsBatchAnswer
    CallReturns
CHECK_DEADLOCK FALSE
