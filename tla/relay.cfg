\* One relay request against one console handler, every console operation.
SPECIFICATION FairSpec
CONSTANTS
    Agents = {a1}
    Caps = {send}
    Workspaces = {w1}
    Policies = {p1}
    System = System
    None = None
    Bodies <- MCBodies
    SystemBody <- MCSystemBody
    Shapes <- MCShapes
    FormGrants <- MCFormGrants
    Handlers = {h1}
    Requests = {r1}
    ConsoleOps <- AllOps
INVARIANTS TypeOK ForwardWasAuthorised
PROPERTIES StepsPromised Settles
CHECK_DEADLOCK FALSE
