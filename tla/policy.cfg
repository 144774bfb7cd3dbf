\* Every request of the catalogue under every policy that tells it apart.
SPECIFICATION Spec
CONSTANTS
    Operations <- MCOperations
    Selections <- MCSelections
INVARIANTS TypeOK ForwardedWasPermitted SteadyDecision ReviewFollowsNeed
CHECK_DEADLOCK FALSE
