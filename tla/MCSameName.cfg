SPECIFICATION Spec
CONSTANTS
    Requests <- MCSameName
    Files = {"yesterday", "today"}
    Export <- MCExport
    NameOf <- MCNameOf
    MaxReloads = 1
    MaxFailures = 1
INVARIANT
    SharesAddUp
CHECK_DEADLOCK FALSE
