SPECIFICATION Spec
CONSTANTS
    Calls <- MCCalls
    TypeOf <- MCTypeOf
    Callers = {1, 2}
    Ids = {2}
    Missing = "N/A"
    Files = {"yesterday", "today"}
    Export <- MCExport
    MaxReloads = 1
    MaxFailures = 1
INVARIANTS
    TypeOK
    RecoveryIsHonest
    RecoversWhatItCan
    NamesAreServed
    ReadOncePerCaller
PROPERTIES
    HelpersReturn
CHECK_DEADLOCK FALSE
