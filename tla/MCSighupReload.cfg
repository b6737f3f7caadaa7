CONSTANTS
    Files = {"old", "full_1", "full_2", "torn"}
    Sound = {"old", "full_1", "full_2"}
    TablesOf <- MCTablesOf
    MaxRotations = 3
SPECIFICATION Spec
INVARIANTS
    TypeOK
    ClosedAtExit
    HandleAlwaysServes
PROPERTIES
    RotationIsServed
    ListenerEnds
CHECK_DEADLOCK FALSE
