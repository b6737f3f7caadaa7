CONSTANTS
    Conns = {c1, c2}
    Reloaders = {r1, r2}
    Main = main
    Gens = {g1, g2, g3}
    NoGen = NoGen
    small = small
    large = large
    broken = broken
    Files <- MCFiles
    NoFile = NoFile
    TablesOf <- MCTablesOf
    Sound <- MCSound
SYMMETRY Symmetric
SPECIFICATION Spec
INVARIANTS
    TypeOK
    NeverClosedInUse
    ClosedOnce
    NothingLeaks
PROPERTIES
    SwapKeepsTables
    ClosedStaysClosed
    ImplementsServingHandle
