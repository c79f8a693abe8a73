\* Two Create commands: safety, the use of the key search, and liveness.
SPECIFICATION Spec
CONSTANTS
    c1 = c1
    c2 = c2
    NoCreate = NoCreate
    Creates <- TwoCreates
INVARIANTS
    TypeOK
    SerialUntilCancelled
    CreatedIsWhole
    UnmixedUntilCancelled
    NoKeyNoTrace
PROPERTIES
    SearchesAreSelections
    CreateSettles
