\* Two creations overlap after a Cancel command and one overwrites the other.
SPECIFICATION Safety
CONSTANTS
    c1 = c1
    c2 = c2
    NoCreate = NoCreate
    Creates <- TwoCreates
PROPERTY NotOverwriting
