\* A refusal leaves the flag set although nothing is being generated.
SPECIFICATION Safety
CONSTANTS
    c1 = c1
    c2 = c2
    NoCreate = NoCreate
    Creates <- TwoCreates
PROPERTY RefusedOnlyWhileGenerating
