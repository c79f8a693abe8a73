\* A cancelled creation that has a key saves its files.
SPECIFICATION Safety
CONSTANTS
    c1 = c1
    c2 = c2
    NoCreate = NoCreate
    Creates <- TwoCreates
PROPERTY CanceledSavesNothing
