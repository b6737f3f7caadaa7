SPECIFICATION Spec
CONSTANTS
    Requests <- MCRequests
    Files = {"yesterday", "today"}
    Export <- MCExport
    NameOf <- MCNameOf
    MaxReloads = 2
    MaxFailures = 1
INVARIANTS
    TypeOK
    OneAnswerEach
    ProvenanceIsItsOwn
    OriginIsItsOwn
    ErrorsAreWhole
    OwnSharesAddUp
    RankedByContributors
PROPERTY
    RequestIsAnswered
CHECK_DEADLOCK FALSE
