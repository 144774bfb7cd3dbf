\* A reviewed permission beside an unreviewed one with rules for the same path.
SPECIFICATION Spec
CONSTANTS
    Operations <- MCOperations
    Selections <- MCSelections
INVARIANT EveryReviewIsAsked
CHECK_DEADLOCK FALSE
