\* Cancel answers without freeing the service.
SPECIFICATION Safety
CONSTANTS
    c1 = c1
    c2 = c2
    NoCreate = NoCreate
    Creates <- TwoCreates
INVARIANT CancelFreesService
