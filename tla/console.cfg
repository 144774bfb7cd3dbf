\* One agent with two Workspaces, two console handlers that keep apart, no relay request.
SPECIFICATION Spec
CONSTANTS
    Agents = {a1}
    Caps = {send}
    Workspaces = {w1, w2}
    Policies = {p1}
    System = System
    None = None
    Bodies <- MCPlainBodies
    SystemBody <- MCSystemBody
    Shapes <- MCShapes
    FormGrants <- MCPlainGrants
    Handlers = {h1, h2}
    Requests = {}
    ConsoleOps <- AllOps
INVARIANTS PoliciesExist EditGrantsNothingElse
CONSTRAINT Apart
SYMMETRY Symmetric
CHECK_DEADLOCK FALSE
