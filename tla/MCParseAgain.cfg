CONSTANTS
    Elements <- MCElements
    Replaces <- MCReplaces
    Hideable <- MCHideable
    Disableable <- MCDisableable
    Values <- MCValues
    Breaks <- MCBreaks
SPECIFICATION Spec
INVARIANT ParsedIsEnforced
CHECK_DEADLOCK FALSE
