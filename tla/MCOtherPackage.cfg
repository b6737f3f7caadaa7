SPECIFICATION Spec
CONSTANTS
    Requests <- MCRequests
    Files = {"yesterday", "today"}
    Export <- MCExport
    Workers = {1, 2}
    MaxReloads = 0
    MaxFailures = 0
INVARIANTS
    FoundAsAsked
CHECK_DEADLOCK FALSE
