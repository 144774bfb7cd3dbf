\* One grant of two is edited while a Workspace is deleted.
SPECIFICATION Spec
CONSTANTS
    Agents = {a1}
    Caps = {send}
    Workspaces = {w1, w2}
    Policies = {p1}
    System = System
    None = None
    Bodies <- MCPlainBodies
    SystemBody <- MCSystemBody
    Shapes <- MCShapes
    FormGrants <- MCPlainGrants
    Handlers = {h1}
    Requests = {}
    ConsoleOps <- GrantOps
PROPERTY OtherGrantsSurvive
CHECK_DEADLOCK FALSE
