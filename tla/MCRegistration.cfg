CONSTANTS
    t1 = t1
    t2 = t2
    b1 = b1
    b2 = b2
    a1 = a1
    a2 = a2
    odd = odd
    bad = bad
    Tabs = {t1, t2}
    Browsers = {b1, b2}
    Browser <- MCBrowser
    Addresses = {a1, a2, odd, bad}
    Valid = {a1, a2, odd}
    Nameable = {a1, a2}
    MaxStamps = 2
SPECIFICATION Spec
SYMMETRY MCSymmetry
INVARIANTS
    TypeOK
    FeedbackHonest
    ShownIsOwn
    StoredUnlessOvertaken
\* every tab opens the site once
CHECK_DEADLOCK FALSE
