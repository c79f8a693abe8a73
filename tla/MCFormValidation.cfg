CONSTANTS
    Elements <- MCElements
    Replaces <- MCReplaces
    Hideable <- MCHideable
    Disableable <- MCDisableable
    Values <- MCValues
    Breaks <- MCBreaks
SPECIFICATION Spec
INVARIANTS
    TypeOK
    ErrorsCanBeReset
PROPERTIES
    ErrorsFollowChecks
    ErrorsStayRevisable
    ResetClears
    RefusalIsSummarised
    RequiredIsFilled
\* a posted page is left
CHECK_DEADLOCK FALSE
